---- MODULE Spec2Model ----
(***************************************************************************)
(* A model of CustomerAnalytics (src/modules/customer_analytics.py): the   *)
(* analytics object over a transaction table, with its RFM engine, its     *)
(* segment summary, its cohort/retention engine and its market basket      *)
(* engine.                                                                 *)
(*                                                                         *)
(* Representation.  A DataFrame is a sequence of records (its rows, in     *)
(* row order).  Money is an integer number of cents, so that round(2) is   *)
(* rounding to a whole number of cents.  A date is the number of days      *)
(* since 2024-01-01.  A ratio that the code computes in floating point is  *)
(* kept exact as a pair [num, den]; where the code rounds it to k decimals *)
(* the model keeps the integer value * 10^k, rounded half to even.         *)
(***************************************************************************)
EXTENDS Integers, Sequences, FiniteSets, TLC

VARIABLES df, reference_date, rfm_data, segments, ret, first_rfm

vars == <<df, reference_date, rfm_data, segments, ret, first_rfm>>

-----------------------------------------------------------------------------
(* Bounds of the model.                                                    *)

MaxCust == 6

MaxRows == 3

MaxCohortRows == 4

MaxSessionCust == 2

MaxCalls == 2

MaxChurnCust == 3

MaxJourneyCust == 3

MaxRetentionCust == 3

-----------------------------------------------------------------------------
(* Generic helpers for tables.                                             *)

Range(s) == {s[i] : i \in DOMAIN s}

MaxOf(S) == CHOOSE x \in S : \A y \in S : y <= x

MinOf(S) == CHOOSE x \in S : \A y \in S : x <= y

RECURSIVE SumSeq(_)
SumSeq(s) == IF s = <<>> THEN 0 ELSE Head(s) + SumSeq(Tail(s))

RECURSIVE SortedSeq(_)
SortedSeq(S) == IF S = {} THEN <<>> ELSE <<MinOf(S)>> \o SortedSeq(S \ {MinOf(S)})

(* A table built row by row is held as a tuple of its rows.               *)
Table(f) == <<>> \o f

Column(t, F(_)) == Table([i \in DOMAIN t |-> F(t[i])])

(* The distinct values of a column in order of first appearance            *)
(* (Series.unique()).                                                      *)
FirstOccurrences(s) == {i \in DOMAIN s : \A j \in 1..(i - 1) : s[j] # s[i]}

UniqueAt(s, first) ==
    Table([k \in 1..Cardinality(first) |->
        s[CHOOSE i \in first : Cardinality({j \in first : j < i}) = k - 1]])

Unique(s) == UniqueAt(s, FirstOccurrences(s))

(* round(): num/den (num >= 0, den > 0) to the nearest integer, a half to  *)
(* the even neighbour.                                                     *)
RoundHalfEven(num, den) ==
    LET q == num \div den
        r == num % den
    IN IF 2 * r < den THEN q
       ELSE IF 2 * r > den THEN q + 1
       ELSE IF q % 2 = 0 THEN q ELSE q + 1

Abs(x) == IF x < 0 THEN 0 - x ELSE x

-----------------------------------------------------------------------------
(* DataFrame helpers.                                                      *)

(* groupby('customer_id'): the group keys, sorted ascending.               *)
customer_ids(d) == SortedSeq({d[i].customer_id : i \in DOMAIN d})

RowsOf(d, c) == SelectSeq(d, LAMBDA r : r.customer_id = c)

(* Series.rank(method='min'): equal values share their lowest rank.        *)
RankMin(v) ==
    Table([i \in DOMAIN v |-> 1 + Cardinality({j \in DOMAIN v : v[j] < v[i]})])

(* Series.rank(method='first'): ascending ranks 1..n, equal values ranked  *)
(* in the order they appear in the series.                                 *)
RankFirst(v) ==
    Table([i \in DOMAIN v |->
        1 + Cardinality({j \in DOMAIN v : v[j] < v[i] \/ (v[j] = v[i] /\ j < i)})])

(* The values v in ascending order: the k-th is the value y with fewer     *)
(* than k values below it and at least k values not above it.              *)
SortValues(v) ==
    Table([k \in DOMAIN v |->
        CHOOSE y \in Range(v) :
            /\ Cardinality({j \in DOMAIN v : v[j] < y}) < k
            /\ k <= Cardinality({j \in DOMAIN v : v[j] <= y})])

(* Linear interpolation in the sorted values s at 0, 1/q, ..., 1; each     *)
(* edge is returned multiplied by q, which keeps it an integer.            *)
Interpolate(s, q) ==
    Table([k \in 1..(q + 1) |->
          IF ((Len(s) - 1) * (k - 1)) % q = 0
          THEN s[((Len(s) - 1) * (k - 1)) \div q + 1] * q
          ELSE s[((Len(s) - 1) * (k - 1)) \div q + 1] * q
               + (((Len(s) - 1) * (k - 1)) % q)
                 * (s[((Len(s) - 1) * (k - 1)) \div q + 2]
                    - s[((Len(s) - 1) * (k - 1)) \div q + 1])])

(* Series.quantile([0, 1/q, ..., 1]), times q.                             *)
QuantileEdges(x, q) == Interpolate(SortValues(x), q)

(* The bin (e[b-1], e[b]] of the edges e (times q) that holds xi, the      *)
(* lowest edge included in the first bin.                                  *)
BinOf(xi, e, q) ==
    IF xi * q = e[1] THEN 1 ELSE Cardinality({k \in DOMAIN e : e[k] < xi * q})

(* _bins_to_cuts: ok is FALSE when the bin edges are not unique            *)
(* (ValueError); otherwise codes[i] is the label of the bin holding x[i].  *)
Cut(x, e, q, labels) ==
    IF Cardinality(Range(e)) < Len(e)
    THEN [ok |-> FALSE, codes |-> <<>>]
    ELSE [ok |-> TRUE, codes |-> Table([i \in DOMAIN x |-> labels[BinOf(x[i], e, q)]])]

(* pd.qcut(x, q, labels); nothing to bin is an error as well.              *)
qcut(x, q, labels) ==
    IF Len(x) = 0 THEN [ok |-> FALSE, codes |-> <<>>]
    ELSE Cut(x, QuantileEdges(x, q), q, labels)

-----------------------------------------------------------------------------
(* RFM engine.                                                             *)

NumBins == 5

RLabels == <<5, 4, 3, 2, 1>>

FMLabels == <<1, 2, 3, 4, 5>>

Segments ==
    {"Champions", "Loyal Customers", "Potential Loyalists", "New Customers",
     "At Risk", "Cannot Lose Them", "Hibernating", "Lost Customers"}

(* The lists of the seven branches of _categorize_rfm, in branch order.    *)
Champions == {"555", "554", "544", "545", "454", "455", "445"}

LoyalCustomers == {"543", "444", "435", "355", "354", "345", "344", "335"}

PotentialLoyalists ==
    {"553", "551", "552", "541", "542", "533", "532", "531", "452", "451"}

NewCustomers == {"512", "511", "422", "421", "412", "411", "311"}

AtRisk == {"155", "154", "144", "214", "215", "115", "114"}

CannotLoseThem == {"155", "254", "245", "253", "244", "243", "234", "343", "334"}

Hibernating ==
    {"231", "241", "251", "233", "232", "223", "222", "231", "241", "251"}

(* _categorize_rfm with the At Risk and Cannot Lose Them branches in the   *)
(* other order.                                                            *)
CategorizeSwapped(rfm_score) ==
    IF rfm_score \in Champions THEN "Champions"
    ELSE IF rfm_score \in LoyalCustomers THEN "Loyal Customers"
    ELSE IF rfm_score \in PotentialLoyalists THEN "Potential Loyalists"
    ELSE IF rfm_score \in NewCustomers THEN "New Customers"
    ELSE IF rfm_score \in CannotLoseThem THEN "Cannot Lose Them"
    ELSE IF rfm_score \in AtRisk THEN "At Risk"
    ELSE IF rfm_score \in Hibernating THEN "Hibernating"
    ELSE "Lost Customers"

_categorize_rfm(rfm_score) ==
    IF rfm_score \in Champions THEN "Champions"
    ELSE IF rfm_score \in LoyalCustomers THEN "Loyal Customers"
    ELSE IF rfm_score \in PotentialLoyalists THEN "Potential Loyalists"
    ELSE IF rfm_score \in NewCustomers THEN "New Customers"
    ELSE IF rfm_score \in AtRisk THEN "At Risk"
    ELSE IF rfm_score \in CannotLoseThem THEN "Cannot Lose Them"
    ELSE IF rfm_score \in Hibernating THEN "Hibernating"
    ELSE "Lost Customers"

(* One group of groupby('customer_id').agg(order_date max/count,           *)
(* total_amount sum/mean).round(2): rows are the customer's rows and amts  *)
(* their total_amount column.                                              *)
AggRow(c, rows, amts) ==
    [customer_id     |-> c,
     last_order_date |-> MaxOf({rows[i].order_date : i \in DOMAIN rows}),
     frequency       |-> Len(rows),
     monetary        |-> SumSeq(amts),
     avg_order_value |-> RoundHalfEven(SumSeq(amts), Len(rows))]

AggRFM(d, c) ==
    AggRow(c, RowsOf(d, c), Column(RowsOf(d, c), LAMBDA r : r.total_amount))

AggTable(d) == Column(customer_ids(d), LAMBDA c : AggRFM(d, c))

RFM_score(r, f, m) == ToString(r) \o ToString(f) \o ToString(m)

(* One row of customer_data, from its aggregates a, its recency and its    *)
(* three scores.                                                           *)
RFMRow(a, recency, r, f, m) ==
    [customer_id     |-> a.customer_id,
     last_order_date |-> a.last_order_date,
     frequency       |-> a.frequency,
     monetary        |-> a.monetary,
     avg_order_value |-> a.avg_order_value,
     recency         |-> recency,
     R_score         |-> r,
     F_score         |-> f,
     M_score         |-> m,
     RFM_score       |-> RFM_score(r, f, m),
     segment         |-> _categorize_rfm(RFM_score(r, f, m))]

(* customer_data from the aggregates, the recency column and the three     *)
(* qcut results; ok is FALSE when a qcut raised.                           *)
ScoreTable(agg, rec, R, F, M) ==
    IF ~(R.ok /\ F.ok /\ M.ok) THEN [ok |-> FALSE, table |-> <<>>]
    ELSE [ok |-> TRUE,
          table |-> Table([i \in DOMAIN agg |->
                       RFMRow(agg[i], rec[i], R.codes[i], F.codes[i], M.codes[i])])]

(* pd.cut(x, bins=q): q bins of equal width over the values, times q.      *)
WidthEdges(x, q) ==
    Table([k \in 1..(q + 1) |->
        MinOf(Range(x)) * q + (MaxOf(Range(x)) - MinOf(Range(x))) * (k - 1)])

(* The scoring with pd.cut on the values in place of pd.qcut on the ranks. *)
ScoreColumnsCut(agg, rec) ==
    ScoreTable(agg, rec,
               Cut(rec, WidthEdges(rec, NumBins), NumBins, RLabels),
               Cut(Column(agg, LAMBDA a : a.frequency),
                   WidthEdges(Column(agg, LAMBDA a : a.frequency), NumBins),
                   NumBins, FMLabels),
               Cut(Column(agg, LAMBDA a : a.monetary),
                   WidthEdges(Column(agg, LAMBDA a : a.monetary), NumBins),
                   NumBins, FMLabels))

ScoreColumns(agg, rec) ==
    ScoreTable(agg, rec,
               qcut(RankFirst(rec), NumBins, RLabels),
               qcut(RankFirst(Column(agg, LAMBDA a : a.frequency)), NumBins, FMLabels),
               qcut(RankFirst(Column(agg, LAMBDA a : a.monetary)), NumBins, FMLabels))

RecencyTable(agg, ref) ==
    ScoreColumns(agg, Column(agg, LAMBDA a : ref - a.last_order_date))

(* The body of calculate_rfm's try block: ok is FALSE when an exception    *)
(* is raised, otherwise table is customer_data.                            *)
CalcRFM(d, ref) == RecencyTable(AggTable(d), ref)

NoneValue == [isNone |-> TRUE, table |-> <<>>]

Cached(t) == [isNone |-> FALSE, table |-> t]

(* calculate_rfm that appends customer_data to the cached table.          *)
RfmDataAccumulate(cache, r) ==
    IF r.ok THEN Cached(cache.table \o r.table) ELSE cache

(* self.rfm_data after one run of calculate_rfm that computed r: it is     *)
(* set on success and kept on failure.                                     *)
RfmDataAfter(cache, r) == IF r.ok THEN Cached(r.table) ELSE cache

(* What calculate_rfm returns: customer_data, the object it has just       *)
(* stored in self.rfm_data, or an empty DataFrame on failure.              *)
RfmReturn(cache_after, r) == IF r.ok THEN cache_after.table ELSE <<>>

calculate_rfm ==
    \E r \in {CalcRFM(df, reference_date)} :
    \E cache_after \in {RfmDataAfter(rfm_data, r)} :
       /\ rfm_data' = cache_after
       /\ ret' = [op |-> "calculate_rfm", raised |-> FALSE,
                  val |-> RfmReturn(cache_after, r)]
       /\ first_rfm' = IF first_rfm.calls = 0
                       THEN [calls |-> 1, val |-> RfmReturn(cache_after, r)]
                       ELSE [calls |-> IF first_rfm.calls < MaxCalls
                                       THEN first_rfm.calls + 1 ELSE MaxCalls,
                             val   |-> first_rfm.val]
       /\ UNCHANGED <<df, reference_date, segments>>

(* One entry of the segment summary dict; rows are the segment's           *)
(* customers; a mean is kept as sum and count.                             *)
SegmentSummary(seg, rows) ==
    [segment       |-> seg,
     count         |-> Len(rows),
     revenue       |-> SumSeq(Column(rows, LAMBDA r : r.monetary)),
     avg_recency   |-> [num |-> SumSeq(Column(rows, LAMBDA r : r.recency)),
                        den |-> Len(rows)],
     avg_frequency |-> [num |-> SumSeq(Column(rows, LAMBDA r : r.frequency)),
                        den |-> Len(rows)],
     avg_monetary  |-> [num |-> SumSeq(Column(rows, LAMBDA r : r.monetary)),
                        den |-> Len(rows)]]

SegmentTable(t) ==
    Column(Unique(Column(t, LAMBDA r : r.segment)),
           LAMBDA seg : SegmentSummary(seg, SelectSeq(t, LAMBDA r : r.segment = seg)))

(* An operation that reads self.rfm_data without computing it first.      *)
EnsureRFMSkipped(cache, d, ref) == cache

(* self.rfm_data after "if self.rfm_data is None: self.calculate_rfm()".   *)
EnsureRFM(cache, d, ref) ==
    IF cache.isNone THEN RfmDataAfter(cache, CalcRFM(d, ref)) ELSE cache

get_customer_segments ==
    \E cache \in {EnsureRFM(rfm_data, df, reference_date)} :
       /\ rfm_data' = cache
       /\ IF cache.isNone
          THEN /\ ret' = [op |-> "get_customer_segments", raised |-> TRUE,
                          val |-> <<>>]
               /\ UNCHANGED segments
          ELSE IF cache.table = <<>>
          THEN /\ ret' = [op |-> "get_customer_segments", raised |-> FALSE,
                          val |-> <<>>]
               /\ UNCHANGED segments
          ELSE \E summary \in {SegmentTable(cache.table)} :
               /\ ret' = [op |-> "get_customer_segments", raised |-> FALSE,
                          val |-> summary]
               /\ segments' = Cached(summary)
       /\ UNCHANGED <<df, reference_date, first_rfm>>

-----------------------------------------------------------------------------
(* Datasets for the RFM engine: customers 1..n, customer c placing lv[c]   *)
(* orders; a variant fixes, per number of orders, the date of the last     *)
(* order and the amount of one order.                                      *)

Variants ==
    {[dates |-> <<5, 40, 75, 100, 130>>, amts |-> <<1000, 1000, 1000, 1000, 1000>>,
      rev |-> FALSE, odd |-> 0],
     [dates |-> <<130, 100, 75, 40, 5>>, amts |-> <<1200, 1500, 1800, 2000, 2100>>,
      rev |-> TRUE, odd |-> 1]}

LevelVectors(n) ==
    {lv \in [1..n -> 1..NumBins] : \E k \in 1..NumBins : Range(lv) = 1..k}

CustomerRows(c, l, var) ==
    Table([j \in 1..l |->
        [customer_id  |-> c,
         order_date   |-> IF j = 1 /\ l > 1 THEN 0 ELSE var.dates[l],
         product_name |-> IF j % 2 = 1 THEN "A" ELSE "B",
         total_amount |-> var.amts[l] + (IF j = 1 THEN var.odd ELSE 0)]])

RECURSIVE BuildDF(_, _, _)
BuildDF(n, lv, var) ==
    IF n = 0 THEN <<>>
    ELSE IF var.rev
         THEN CustomerRows(n, lv[n], var) \o BuildDF(n - 1, lv, var)
         ELSE BuildDF(n - 1, lv, var) \o CustomerRows(n, lv[n], var)

(* __init__: the state of a new object over the table d.                   *)
Construct(d) ==
    /\ df = d
    /\ reference_date = MaxOf({d[i].order_date : i \in DOMAIN d})
    /\ rfm_data = NoneValue
    /\ segments = NoneValue
    /\ ret = [op |-> "__init__", raised |-> FALSE, val |-> <<>>]
    /\ first_rfm = [calls |-> 0, val |-> <<>>]

InitRFM ==
    \E n \in 1..MaxCust : \E lv \in LevelVectors(n) : \E var \in Variants :
        Construct(BuildDF(n, lv, var))

(* The scoring of a new object: the first call of calculate_rfm.           *)
NextRFM == first_rfm.calls = 0 /\ calculate_rfm

SpecRFM == InitRFM /\ [][NextRFM]_vars

-----------------------------------------------------------------------------
(* Properties of the RFM engine.                                           *)

IsRFM == ret.op = "calculate_rfm"

NumCustomers == Cardinality({df[i].customer_id : i \in DOMAIN df})

(* How many rows of the table t have the score v in the column Score.      *)
Holders(t, Score(_), v) == Cardinality({i \in DOMAIN t : Score(t[i]) = v})

Balanced(t, Score(_)) ==
    \A a, b \in 1..5 : Holders(t, Score, a) - Holders(t, Score, b) <= 1

Distinct(t, Value(_)) == Cardinality({Value(t[i]) : i \in DOMAIN t})

(* C4: in the table returned by calculate_rfm every R_score, F_score and   *)
(* M_score is one of 1..5, and in a dimension with at least 5 distinct     *)
(* values the five scores are held by equally many customers, up to one.   *)
C4_ScoresBalanced ==
    IsRFM =>
      /\ \A i \in DOMAIN ret.val :
            /\ ret.val[i].R_score \in 1..5
            /\ ret.val[i].F_score \in 1..5
            /\ ret.val[i].M_score \in 1..5
      /\ Distinct(ret.val, LAMBDA r : r.recency) >= 5
            => Balanced(ret.val, LAMBDA r : r.R_score)
      /\ Distinct(ret.val, LAMBDA r : r.frequency) >= 5
            => Balanced(ret.val, LAMBDA r : r.F_score)
      /\ Distinct(ret.val, LAMBDA r : r.monetary) >= 5
            => Balanced(ret.val, LAMBDA r : r.M_score)

(* Six customers with five distinct monetary values: one monetary score is *)
(* held by two customers and every other one by one.                       *)
C4_Witness ==
    /\ IsRFM
    /\ Len(ret.val) = 6
    /\ Distinct(ret.val, LAMBDA r : r.monetary) = 5
    /\ Distinct(ret.val, LAMBDA r : r.recency) = 5
    /\ \E a \in 1..5 : Holders(ret.val, LAMBDA r : r.M_score, a) = 2
    /\ \E a \in 1..5 : Holders(ret.val, LAMBDA r : r.R_score, a) = 1

(* C5: a customer with strictly smaller recency has an R_score at least as *)
(* high, one with strictly greater frequency (monetary) an F_score         *)
(* (M_score) at least as high; customers with equal values are ranked in   *)
(* the order of their rows in the customer table, the earlier row as the   *)
(* lower rank, so that ties never make the ranking fail: the table is      *)
(* not empty whenever there are at least two customers.                    *)
C5_Monotone ==
    IsRFM =>
      /\ \A i, j \in DOMAIN ret.val :
            /\ ret.val[i].recency < ret.val[j].recency
                  => ret.val[i].R_score >= ret.val[j].R_score
            /\ ret.val[i].frequency > ret.val[j].frequency
                  => ret.val[i].F_score >= ret.val[j].F_score
            /\ ret.val[i].monetary > ret.val[j].monetary
                  => ret.val[i].M_score >= ret.val[j].M_score
            /\ (i < j /\ ret.val[i].recency = ret.val[j].recency)
                  => ret.val[i].R_score >= ret.val[j].R_score
            /\ (i < j /\ ret.val[i].frequency = ret.val[j].frequency)
                  => ret.val[i].F_score <= ret.val[j].F_score
            /\ (i < j /\ ret.val[i].monetary = ret.val[j].monetary)
                  => ret.val[i].M_score <= ret.val[j].M_score
      /\ NumCustomers >= 2 => Len(ret.val) = NumCustomers

(* Two customers with the same frequency and different F_scores, the       *)
(* earlier row the lower, next to a pair ordered by value.                 *)
C5_Witness ==
    /\ IsRFM
    /\ \E i, j \in DOMAIN ret.val :
          /\ i < j
          /\ ret.val[i].frequency = ret.val[j].frequency
          /\ ret.val[i].F_score < ret.val[j].F_score
    /\ \E i, j \in DOMAIN ret.val :
          /\ ret.val[i].recency < ret.val[j].recency
          /\ ret.val[i].R_score > ret.val[j].R_score

(* The pattern table of the categorizer, in branch order.                  *)
PatternTable ==
    <<[name |-> "Champions", scores |-> Champions],
      [name |-> "Loyal Customers", scores |-> LoyalCustomers],
      [name |-> "Potential Loyalists", scores |-> PotentialLoyalists],
      [name |-> "New Customers", scores |-> NewCustomers],
      [name |-> "At Risk", scores |-> AtRisk],
      [name |-> "Cannot Lose Them", scores |-> CannotLoseThem],
      [name |-> "Hibernating", scores |-> Hibernating]>>

Matches(score) == {k \in DOMAIN PatternTable : score \in PatternTable[k].scores}

FirstMatch(score) ==
    IF Matches(score) = {} THEN "Lost Customers"
    ELSE PatternTable[MinOf(Matches(score))].name

(* C6: the segment of a customer is looked up from the string R||F||M in   *)
(* the ordered pattern table: the first branch holding the score wins      *)
(* ('155' is At Risk), a score in no branch is Lost Customers, and the     *)
(* result is one of the 8 named segments.                                  *)
C6_SegmentLookup ==
    IsRFM =>
      \A i \in DOMAIN ret.val :
        /\ ret.val[i].RFM_score
              = ToString(ret.val[i].R_score) \o ToString(ret.val[i].F_score)
                  \o ToString(ret.val[i].M_score)
        /\ ret.val[i].segment = FirstMatch(ret.val[i].RFM_score)
        /\ ret.val[i].segment \in Segments
        /\ ret.val[i].RFM_score = "155" => ret.val[i].segment = "At Risk"

(* A table with a customer scored 155, in two branches, and a customer     *)
(* whose score is in no branch.                                            *)
C6_Witness ==
    /\ IsRFM
    /\ \E i \in DOMAIN ret.val :
          /\ ret.val[i].RFM_score = "155"
          /\ Cardinality(Matches(ret.val[i].RFM_score)) = 2
          /\ ret.val[i].segment = "At Risk"
    /\ \E i \in DOMAIN ret.val :
          /\ Matches(ret.val[i].RFM_score) = {}
          /\ ret.val[i].segment = "Lost Customers"

-----------------------------------------------------------------------------
(* Market basket engine.                                                   *)

(* The product names of the modelled catalogue, in string order.           *)
ProductNames == <<"A", "B", "C", "D">>

ProductIndex(p) == CHOOSE i \in DOMAIN ProductNames : ProductNames[i] = p

(* tuple(sorted([product1, product2]))                                     *)
SortedPair(p1, p2) ==
    IF ProductIndex(p1) <= ProductIndex(p2) THEN <<p1, p2>> ELSE <<p2, p1>>

KeyLe(a, b) == a[1] < b[1] \/ (a[1] = b[1] /\ a[2] <= b[2])

MinKey(S) == CHOOSE k \in S : \A j \in S : KeyLe(k, j)

RECURSIVE SortedKeys(_)
SortedKeys(S) == IF S = {} THEN <<>> ELSE <<MinKey(S)>> \o SortedKeys(S \ {MinKey(S)})

RECURSIVE Flatten(_)
Flatten(ss) == IF ss = <<>> THEN <<>> ELSE Head(ss) \o Flatten(Tail(ss))

Indices(s) == Table([k \in DOMAIN s |-> k])

Count(s, x) == Cardinality({i \in DOMAIN s : s[i] = x})

(* A dict that counts the items of s, in order of first insertion.         *)
CountDict(s) == Column(Unique(s), LAMBDA k : [key |-> k, value |-> Count(s, k)])

Lookup(dict, k) == dict[CHOOSE i \in DOMAIN dict : dict[i].key = k].value

(* The product_name list of one (customer_id, order_date) group, in row    *)
(* order.                                                                  *)
BasketList(d, key) ==
    Column(SelectSeq(d, LAMBDA r : r.customer_id = key[1] /\ r.order_date = key[2]),
           LAMBDA r : r.product_name)

(* groupby(['customer_id', 'order_date'])['product_name'].apply(list)      *)
Baskets(d) ==
    Column(SortedKeys({<<d[i].customer_id, d[i].order_date>> : i \in DOMAIN d}),
           LAMBDA k : BasketList(d, k))

(* The pairs counted for one basket: every (i, j) with i != j, in loop     *)
(* order.                                                                  *)
PairsAt(ps, i) ==
    Column(SelectSeq(Indices(ps), LAMBDA j : i # j),
           LAMBDA j : SortedPair(ps[i], ps[j]))

PairsOf(ps) == Flatten(Column(Indices(ps), LAMBDA i : PairsAt(ps, i)))

product_counts(baskets) == CountDict(Flatten(baskets))

product_combinations(baskets) ==
    CountDict(Flatten(Column(baskets, LAMBDA ps : PairsOf(ps))))

(* round(x, k) of the ratio num/den of either sign, as x * 10^k.           *)
RoundRatio(num, den) ==
    IF den < 0 THEN
        (IF num <= 0 THEN RoundHalfEven(0 - num, 0 - den)
         ELSE 0 - RoundHalfEven(num, 0 - den))
    ELSE IF num < 0 THEN 0 - RoundHalfEven(0 - num, den)
    ELSE RoundHalfEven(num, den)

(* A rule whose support is the share of baskets holding its antecedent     *)
(* instead of the share of the pair.                                       *)
RuleAntecedentSupport(ant, cons, co, cA, cC, T) ==
    [antecedent |-> ant,
     consequent |-> cons,
     support    |-> RoundRatio(cA * 10000, T),
     confidence |-> RoundRatio(co * 10000, cA),
     lift       |-> RoundRatio(co * T * 100, cA * cC),
     conviction |-> RoundRatio(1000 * cA * 100, 1001 * cA - 1000 * co)]

(* One association rule from the antecedent's and the consequent's counts  *)
(* cA and cC, the pair count co and the number T of baskets: support and   *)
(* confidence are kept times 10^4, lift and conviction times 10^2.         *)
Rule(ant, cons, co, cA, cC, T) ==
    [antecedent |-> ant,
     consequent |-> cons,
     support    |-> RoundRatio(co * 10000, T),
     confidence |-> RoundRatio(co * 10000, cA),
     lift       |-> RoundRatio(co * T * 100, cA * cC),
     conviction |-> RoundRatio(1000 * cA * 100, 1001 * cA - 1000 * co)]

(* The rules of one product_combinations entry with counts c1 and c2 of    *)
(* its two products.                                                       *)
RulesOfPair(p1, p2, co, c1, c2, T, min_support, min_confidence) ==
    IF co * min_support.den >= min_support.num * T
    THEN (IF co * min_confidence.den >= min_confidence.num * c1
          THEN <<Rule(p1, p2, co, c1, c2, T)>> ELSE <<>>)
         \o
         (IF co * min_confidence.den >= min_confidence.num * c2
          THEN <<Rule(p2, p1, co, c2, c1, T)>> ELSE <<>>)
    ELSE <<>>

RulesOf(combos, counts, T, min_support, min_confidence) ==
    Flatten(Column(combos, LAMBDA e :
        RulesOfPair(e.key[1], e.key[2], e.value,
                    Lookup(counts, e.key[1]), Lookup(counts, e.key[2]),
                    T, min_support, min_confidence)))

(* sorted(recommendations, key=(lift, confidence), reverse=True): stable.  *)
RuleBefore(a, b) ==
    a.lift > b.lift \/ (a.lift = b.lift /\ a.confidence > b.confidence)

SortRules(rs) ==
    Table([k \in DOMAIN rs |->
        rs[CHOOSE i \in DOMAIN rs :
              k = 1 + Cardinality({j \in DOMAIN rs :
                        \/ RuleBefore(rs[j], rs[i])
                        \/ (~RuleBefore(rs[i], rs[j]) /\ j < i)})]])

(* sorted(product_counts.items(), key=count, reverse=True): stable.        *)
SortCounts(counts) ==
    Table([k \in DOMAIN counts |->
        counts[CHOOSE i \in DOMAIN counts :
              k = 1 + Cardinality({j \in DOMAIN counts :
                        \/ counts[j].value > counts[i].value
                        \/ (counts[j].value = counts[i].value /\ j < i)})]])

TopRules == 20

FirstN(s, n) == SubSeq(s, 1, IF Len(s) < n THEN Len(s) ELSE n)

BasketResult(baskets, combos, counts, rules) ==
    [association_rules    |-> FirstN(rules, TopRules),
     recommendations      |-> rules,
     product_combinations |-> combos,
     product_popularity   |-> SortCounts(counts),
     baskets              |-> baskets,
     total_transactions   |-> Len(baskets)]

BasketCounts(baskets, min_support, min_confidence) ==
    BasketResult(baskets, product_combinations(baskets), product_counts(baskets),
                 SortRules(RulesOf(product_combinations(baskets),
                                   product_counts(baskets), Len(baskets),
                                   min_support, min_confidence)))

market_basket_analysis(min_support, min_confidence) ==
    /\ ret' = [op |-> "market_basket_analysis", raised |-> FALSE,
               args |-> [min_support |-> min_support,
                         min_confidence |-> min_confidence],
               val |-> BasketCounts(Baskets(df), min_support, min_confidence)]
    /\ UNCHANGED <<df, reference_date, rfm_data, segments, first_rfm>>

(* The thresholds tried: the defaults 0.01 and 0.5, and 1.0.               *)
MinSupports == {[num |-> 1, den |-> 100], [num |-> 1, den |-> 1]}

MinConfidences == {[num |-> 1, den |-> 2], [num |-> 1, den |-> 1]}

(* Datasets for the basket engine: up to MaxRows order lines of two        *)
(* customers on two dates, over three products.                            *)
BasketRowTypes ==
    {[customer_id |-> k[1], order_date |-> k[2], product_name |-> p,
      total_amount |-> 1000] :
        k \in {<<1, 10>>, <<1, 31>>, <<2, 10>>}, p \in {"A", "B", "C"}}

BasketDatasets == UNION {[1..n -> BasketRowTypes] : n \in 1..MaxRows}

InitBasket == \E d \in BasketDatasets : Construct(d)

NextBasket ==
    \E ms \in MinSupports : \E mc \in MinConfidences : market_basket_analysis(ms, mc)

SpecBasket == InitBasket /\ [][NextBasket]_vars

(* The recommender closure returned under 'recommendation_engine'.  It     *)
(* reads the full sorted rule list of the call that built it; the caller   *)
(* keeps it with the returned dict, and after a call of the closure the    *)
(* model keeps it in the field rules of the return value.                  *)
EngineRules(r) ==
    IF r.op = "market_basket_analysis" THEN r.val.recommendations ELSE r.rules

HoldsEngine(r) ==
    r.op \in {"market_basket_analysis", "get_customer_recommendations"}

(* self.df[self.df['customer_id'] == customer_id]['product_name'].unique() *)
customer_products(d, customer_id) ==
    Unique(Column(SelectSeq(d, LAMBDA r : r.customer_id = customer_id),
                  LAMBDA r : r.product_name))

(* The rules that add to the map, in loop order: for each product of the   *)
(* customer, the rules with that antecedent and a consequent the customer  *)
(* does not have.                                                          *)
Triggered(products, rules) ==
    Flatten(Column(products, LAMBDA p :
        SelectSeq(rules, LAMBDA rec :
            rec.antecedent = p /\ rec.consequent \notin Range(products))))

(* rec['confidence'] * rec['lift'], times 10^6.                            *)
RuleScore(rec) == rec.confidence * rec.lift

(* recommendations_map: consequent -> accumulated score, in order of first *)
(* insertion.                                                              *)
recommendations_map(trig) ==
    Column(Unique(Column(trig, LAMBDA rec : rec.consequent)), LAMBDA k :
        [key |-> k,
         value |-> SumSeq(Column(SelectSeq(trig, LAMBDA rec : rec.consequent = k),
                                 RuleScore))])

(* s[:n] of a Python list.                                                 *)
Slice(s, n) ==
    IF n >= 0 THEN FirstN(s, n)
    ELSE IF Len(s) + n > 0 THEN FirstN(s, Len(s) + n) ELSE <<>>

(* [product for product, _ in sorted_recs[:top_n]]                         *)
Recommend(d, rules, customer_id, top_n) ==
    Column(Slice(SortCounts(recommendations_map(
                     Triggered(customer_products(d, customer_id), rules))),
                 top_n),
           LAMBDA e : e.key)

get_customer_recommendations(customer_id, top_n) ==
    /\ HoldsEngine(ret)
    /\ ret' = [op |-> "get_customer_recommendations", raised |-> FALSE,
               args |-> [customer_id |-> customer_id, top_n |-> top_n],
               rules |-> EngineRules(ret),
               val |-> Recommend(df, EngineRules(ret), customer_id, top_n)]
    /\ UNCHANGED <<df, reference_date, rfm_data, segments, first_rfm>>

(* Datasets for the recommender: the baskets of customer 1 on two dates    *)
(* and of customer 2 on one date, each with one of these product lists     *)
(* (the first basket is never empty).                                      *)
BasketLists ==
    {<<>>, <<"A">>, <<"C">>, <<"A", "B">>, <<"B", "A">>, <<"A", "C">>,
     <<"A", "A", "B">>, <<"A", "B", "C">>, <<"A", "B", "C", "D">>}

BasketRows(customer_id, order_date, ps) ==
    Column(ps, LAMBDA p : [customer_id |-> customer_id, order_date |-> order_date,
                           product_name |-> p, total_amount |-> 1000])

(* The customer ids asked for; 3 is in no dataset.                         *)
AskedCustomers == {1, 2, 3}

(* The values of top_n tried: the default 5, small ones, and -1.           *)
TopNs == {0 - 1, 0, 1, 2, 5}

InitRecommend ==
    \E b1 \in BasketLists \ {<<>>} : \E b2, b3 \in BasketLists :
        Construct(BasketRows(1, 10, b1) \o BasketRows(1, 31, b2)
                  \o BasketRows(2, 10, b3))

NextRecommend ==
    \/ \E ms \in MinSupports : \E mc \in MinConfidences :
          market_basket_analysis(ms, mc)
    \/ \E c \in AskedCustomers : \E n \in TopNs :
          get_customer_recommendations(c, n)

SpecRecommend == InitRecommend /\ [][NextRecommend]_vars

-----------------------------------------------------------------------------
(* Properties of the market basket engine.                                 *)

IsBasket == ret.op = "market_basket_analysis"

(* The baskets of df as sets: the distinct products of each                *)
(* (customer_id, order_date) group.                                        *)
BasketKeysOf == {<<df[i].customer_id, df[i].order_date>> : i \in DOMAIN df}

BasketSet(k) ==
    {df[i].product_name :
        i \in {j \in DOMAIN df : df[j].customer_id = k[1] /\ df[j].order_date = k[2]}}

(* The number of baskets that contain every product of P.                  *)
BasketsWith(P) == Cardinality({k \in BasketKeysOf : P \subseteq BasketSet(k)})

(* C1: every association rule returned by market_basket_analysis has       *)
(* 0 < confidence <= 1 and lift > 0 (confidence is kept times 10^4).       *)
C1_ConfidenceLiftRange ==
    IsBasket =>
      \A i \in DOMAIN ret.val.association_rules :
        /\ ret.val.association_rules[i].confidence > 0
        /\ ret.val.association_rules[i].confidence <= 10000
        /\ ret.val.association_rules[i].lift > 0

(* C2: a rule A -> B has support = both/T, confidence = both/count(A) and  *)
(* lift = confidence/(count(B)/T), where both, count(A) and count(B) are   *)
(* the numbers of baskets holding both products, A and B, and T is the     *)
(* number of baskets (each rounded as the rule carries it).                *)
C2_SupportConfidenceLift ==
    IsBasket =>
      \A i \in DOMAIN ret.val.association_rules :
        ret.val.association_rules[i].antecedent
            # ret.val.association_rules[i].consequent
        => /\ ret.val.association_rules[i].support
                = RoundHalfEven(
                    BasketsWith({ret.val.association_rules[i].antecedent,
                                 ret.val.association_rules[i].consequent}) * 10000,
                    Cardinality(BasketKeysOf))
           /\ ret.val.association_rules[i].confidence
                = RoundHalfEven(
                    BasketsWith({ret.val.association_rules[i].antecedent,
                                 ret.val.association_rules[i].consequent}) * 10000,
                    BasketsWith({ret.val.association_rules[i].antecedent}))
           /\ ret.val.association_rules[i].lift
                = RoundHalfEven(
                    BasketsWith({ret.val.association_rules[i].antecedent,
                                 ret.val.association_rules[i].consequent})
                      * Cardinality(BasketKeysOf) * 100,
                    BasketsWith({ret.val.association_rules[i].antecedent})
                      * BasketsWith({ret.val.association_rules[i].consequent}))

(* C3: a product in several rows of one basket is counted once in its      *)
(* basket count and never pairs with itself: no co-occurrence entry and no *)
(* emitted rule has antecedent equal to consequent.                        *)
C3_BasketsAreSets ==
    IsBasket =>
      /\ \A i \in DOMAIN ret.val.product_popularity :
            ret.val.product_popularity[i].value
              = BasketsWith({ret.val.product_popularity[i].key})
      /\ \A i \in DOMAIN ret.val.product_combinations :
            ret.val.product_combinations[i].key[1]
              # ret.val.product_combinations[i].key[2]
      /\ \A i \in DOMAIN ret.val.recommendations :
            ret.val.recommendations[i].antecedent
              # ret.val.recommendations[i].consequent

(* Rule j is rule i with antecedent and consequent exchanged.              *)
Reversed(rules, i, j) ==
    /\ rules[i].antecedent = rules[j].consequent
    /\ rules[i].consequent = rules[j].antecedent

(* C18: whenever market_basket_analysis returns both a rule A -> B and the *)
(* rule B -> A, the two rules carry the same support.                      *)
C18_SymmetricSupport ==
    IsBasket =>
      \A i, j \in DOMAIN ret.val.association_rules :
        Reversed(ret.val.association_rules, i, j)
        => ret.val.association_rules[i].support
             = ret.val.association_rules[j].support

(* Both directions of a pair of distinct products are returned, with       *)
(* different confidence.                                                   *)
C18_Witness ==
    /\ IsBasket
    /\ \E i, j \in DOMAIN ret.val.association_rules :
          /\ Reversed(ret.val.association_rules, i, j)
          /\ ret.val.association_rules[i].antecedent
                # ret.val.association_rules[i].consequent
          /\ ret.val.association_rules[i].confidence
                # ret.val.association_rules[j].confidence

(* Properties of the recommender.                                          *)

IsRecommend == ret.op = "get_customer_recommendations"

(* The products in the order lines of customer c.                          *)
Bought(c) == {df[i].product_name : i \in {j \in DOMAIN df : df[j].customer_id = c}}

(* The rules of the engine that lead from a product customer c has bought  *)
(* to product p.                                                           *)
Triggering(rules, c, p) ==
    SelectSeq(rules, LAMBDA rec : rec.antecedent \in Bought(c) /\ rec.consequent = p)

(* The accumulated score of candidate p for customer c: the sum of         *)
(* confidence * lift over the triggering rules (times 10^6).               *)
Accumulated(rules, c, p) ==
    SumSeq(Column(Triggering(rules, c, p),
                  LAMBDA rec : rec.confidence * rec.lift))

(* What the recommender promises about a returned list, apart from its     *)
(* length: no product twice, none already bought, each the consequent of a *)
(* rule whose antecedent the customer has bought, in descending order of   *)
(* accumulated score.                                                      *)
Recommended(val, rules, c) ==
    /\ \A i, j \in DOMAIN val : val[i] = val[j] => i = j
    /\ \A i \in DOMAIN val :
          /\ val[i] \notin Bought(c)
          /\ Triggering(rules, c, val[i]) # <<>>
    /\ \A i, j \in DOMAIN val :
          i < j => Accumulated(rules, c, val[i]) >= Accumulated(rules, c, val[j])

(* C19: for any customer_id and top_n the recommender yields at most top_n *)
(* products (none when top_n is below 0), none of which the customer has   *)
(* bought, each the consequent of a rule whose antecedent the customer has *)
(* bought, ordered by descending accumulated score; an unknown customer_id *)
(* yields an empty list.                                                   *)
C19_Recommendations ==
    IsRecommend =>
      /\ Len(ret.val) <= MaxOf({0, ret.args.top_n})
      /\ Recommended(ret.val, ret.rules, ret.args.customer_id)
      /\ Bought(ret.args.customer_id) = {} => ret.val = <<>>

(* The same for top_n >= 0 only.                                           *)
C19_NonNegativeTopN ==
    (IsRecommend /\ ret.args.top_n >= 0) =>
      /\ Len(ret.val) <= ret.args.top_n
      /\ Recommended(ret.val, ret.rules, ret.args.customer_id)
      /\ Bought(ret.args.customer_id) = {} => ret.val = <<>>

(* A call that cuts two candidates of different score, one of them         *)
(* triggered by two bought products, down to the better one.               *)
C19_TopOfTwo ==
    /\ IsRecommend
    /\ ret.args.top_n = 1
    /\ Len(ret.val) = 1
    /\ Len(Triggering(ret.rules, ret.args.customer_id, ret.val[1])) = 2
    /\ \E p \in Range(ProductNames) \ Bought(ret.args.customer_id) :
          /\ Triggering(ret.rules, ret.args.customer_id, p) # <<>>
          /\ Accumulated(ret.rules, ret.args.customer_id, p)
               < Accumulated(ret.rules, ret.args.customer_id, ret.val[1])

-----------------------------------------------------------------------------
(* Cohort/retention engine.  A pivot table is a record of its index (the   *)
(* cohort groups, ascending), its columns (the period numbers, ascending)  *)
(* and its cells, cells[i][j] being the cell of index[i] and columns[j].   *)
(* A cell is a ratio num/den, or NaN.                                      *)

(* The first day of each month of 2024, in days since 2024-01-01.          *)
MonthStarts == <<0, 31, 60, 91, 121, 152, 182, 213, 244, 274, 305, 335>>

(* dt.to_period('M'): the calendar month of a date, January 2024 being 0.  *)
ToPeriodM(date) == Cardinality({m \in DOMAIN MonthStarts : MonthStarts[m] <= date}) - 1

(* The month of a customer's last order.                                   *)
LastOrderMonth(d, c) ==
    ToPeriodM(MaxOf({d[i].order_date : i \in {j \in DOMAIN d : d[j].customer_id = c}}))

(* groupby('customer_id')['order_date'].min(), as a month.                 *)
cohort_group(d, c) ==
    ToPeriodM(MinOf({d[i].order_date : i \in {j \in DOMAIN d : d[j].customer_id = c}}))

(* df after the merge with the cohort groups, with order_period,           *)
(* cohort_group and period_number on every row.                            *)
MergedRow(r, cohort) ==
    [customer_id   |-> r.customer_id,
     order_date    |-> r.order_date,
     total_amount  |-> r.total_amount,
     order_period  |-> ToPeriodM(r.order_date),
     cohort_group  |-> cohort,
     period_number |-> ToPeriodM(r.order_date) - cohort]

Merged(d) == Column(d, LAMBDA r : MergedRow(r, cohort_group(d, r.customer_id)))

NaNCell == [nan |-> TRUE, num |-> 0, den |-> 1]

Ratio(n, m) == [nan |-> FALSE, num |-> n, den |-> m]

(* Arithmetic on cells: the exact ratio num/den in lowest terms with      *)
(* den > 0, infinity as 1/0.                                               *)
RECURSIVE GCD(_, _)
GCD(a, b) == IF b = 0 THEN a ELSE GCD(b, a % b)

(* The ratio n/d (d > 0) in lowest terms.                                  *)
Q(n, d) == Ratio(n \div GCD(Abs(n), d), d \div GCD(Abs(n), d))

Infinity == Ratio(1, 0)

IsFinite(x) == ~x.nan /\ x.den > 0

(* a + b and a - b of finite a and b, over the least common denominator.   *)
QAdd(a, b) ==
    Q(a.num * (b.den \div GCD(a.den, b.den)) + b.num * (a.den \div GCD(a.den, b.den)),
      a.den * (b.den \div GCD(a.den, b.den)))

QSub(a, b) == QAdd(a, Ratio(0 - b.num, b.den))

QLess(a, b) ==
    a.num * (b.den \div GCD(a.den, b.den)) < b.num * (a.den \div GCD(a.den, b.den))

(* a / b of finite a and b, b > 0, the common factors taken out first.     *)
QDiv(a, b) ==
    Q((a.num \div GCD(Abs(a.num), b.num)) * (b.den \div GCD(a.den, b.den)),
      (a.den \div GCD(a.den, b.den)) * (b.num \div GCD(Abs(a.num), b.num)))

MinQ(S) == CHOOSE x \in S : \A y \in S : ~QLess(y, x)

MaxQ(S) == CHOOSE x \in S : \A y \in S : ~QLess(x, y)

CellRows(m, g, p) ==
    SelectSeq(m, LAMBDA r : r.cohort_group = g /\ r.period_number = p)

(* cohort_data: nunique customer_id of one (cohort_group, period_number).  *)
ActiveCount(m, g, p) ==
    Cardinality({m[i].customer_id :
                    i \in {j \in DOMAIN m : m[j].cohort_group = g /\ m[j].period_number = p}})

(* cohort_sizes: nunique customer_id of one cohort_group.                  *)
CohortSize(m, g) ==
    Cardinality({m[i].customer_id : i \in {j \in DOMAIN m : m[j].cohort_group = g}})

(* revenue_data: the sum of total_amount of one group.                     *)
RevenueSum(m, g, p) == SumSeq(Column(CellRows(m, g, p), LAMBDA r : r.total_amount))

(* DataFrame.pivot of a table that has a row for each (cohort_group,       *)
(* period_number) group of m: a cell without a group is NaN.               *)
Pivot(m, idx, cols, Value(_, _)) ==
    [index   |-> idx,
     columns |-> cols,
     cells   |-> Table([i \in DOMAIN idx |->
                    Table([j \in DOMAIN cols |->
                        IF CellRows(m, idx[i], cols[j]) = <<>> THEN NaNCell
                        ELSE Value(idx[i], cols[j])])])]

MapCells(t, F(_)) ==
    [index   |-> t.index,
     columns |-> t.columns,
     cells   |-> Table([i \in DOMAIN t.cells |->
                    Table([j \in DOMAIN t.cells[i] |-> F(t.cells[i][j])])])]

(* A table left with its missing cells.                                    *)
KeepNaN(t) == t

(* fillna(0)                                                               *)
fillna(t) == MapCells(t, LAMBDA c : IF c.nan THEN Ratio(0, 1) ELSE c)

(* round(k), the cell kept as the integer value * scale (scale = 10^k);    *)
(* money is in cents, so round(2) has scale 1 and astype(int) as well.     *)
RoundCells(t, scale) ==
    MapCells(t, LAMBDA c : IF c.nan THEN c
                           ELSE Ratio(RoundHalfEven(c.num * scale, c.den), 1))

(* retention_rate = customer_id_x / customer_id_y: the customers active in *)
(* the period over the size of the cohort.                                 *)
retention_rate(m, g, p) == Ratio(ActiveCount(m, g, p), CohortSize(m, g))

(* The revenue of the period over the customers active in the period.      *)
RevenuePerActive(m, g, p) == Ratio(RevenueSum(m, g, p), ActiveCount(m, g, p))

(* revenue_per_customer = total_amount / customer_id_y: the revenue of the *)
(* period over the size of the cohort.                                     *)
revenue_per_customer(m, g, p) == Ratio(RevenueSum(m, g, p), CohortSize(m, g))

CohortTables(m, idx, cols) ==
    [period_number   |-> Column(m, LAMBDA r : r.period_number),
     cohort_sizes    |-> Column(idx, LAMBDA g : [key |-> g, value |-> CohortSize(m, g)]),
     retention_table |-> fillna(Pivot(m, idx, cols,
                            LAMBDA g, p : retention_rate(m, g, p))),
     revenue_table   |-> fillna(Pivot(m, idx, cols,
                            LAMBDA g, p : revenue_per_customer(m, g, p))),
     count_table     |-> fillna(Pivot(m, idx, cols,
                            LAMBDA g, p : Ratio(ActiveCount(m, g, p), 1)))]

(* Retention insights and predictions, computed from retention_table       *)
(* before it is rounded.  A dict with optional entries is a record with    *)
(* the set of its keys; an entry that is not in keys has no meaning.       *)

RECURSIVE QSum(_)
QSum(cells) == IF cells = <<>> THEN Ratio(0, 1) ELSE QAdd(Head(cells), QSum(Tail(cells)))

QMul(a, b) ==
    Q((a.num \div GCD(Abs(a.num), b.den)) * (b.num \div GCD(Abs(b.num), a.den)),
      (a.den \div GCD(Abs(b.num), a.den)) * (b.den \div GCD(Abs(a.num), b.den)))

(* round(x, 3) of a finite cell, times 1000.                               *)
Round3(x) == RoundRatio(x.num * 1000, x.den)

(* retention_table.iloc[:, j - 1]                                          *)
ILocColumn(t, j) == Table([i \in DOMAIN t.index |-> t.cells[i][j]])

(* retention_table.mean(): the mean of every column.                       *)
ColumnMeans(t) ==
    Table([j \in DOMAIN t.columns |->
        QDiv(QSum(ILocColumn(t, j)), Ratio(Len(t.index), 1))])

(* DataFrame.empty                                                         *)
IsEmptyTable(t) == t.index = <<>> \/ t.columns = <<>>

(* Series.idxmax() and idxmin(): the position of the first greatest and    *)
(* the first least value.                                                  *)
IdxMax(v) ==
    CHOOSE i \in DOMAIN v :
        /\ \A k \in DOMAIN v : ~QLess(v[i], v[k])
        /\ \A k \in 1..(i - 1) : QLess(v[k], v[i])

IdxMin(v) ==
    CHOOSE i \in DOMAIN v :
        /\ \A k \in DOMAIN v : ~QLess(v[k], v[i])
        /\ \A k \in 1..(i - 1) : QLess(v[i], v[k])

(* The position (from 1) of the column read as period 3:                   *)
(* iloc[:, min(3, shape[1] - 1)].                                          *)
PeriodThreeColumn(t) == MinOf({3, Len(t.columns) - 1}) + 1

CohortAtExtreme(t, col, i) ==
    [period |-> t.index[i], retention_rate |-> col[i]]

(* retention_table.iloc[:, k].mean() if retention_table.shape[1] > k else  *)
(* 0, rounded to 3 decimals (times 1000).                                  *)
Milestone(t, means, k) == IF Len(t.columns) > k THEN Round3(means[k + 1]) ELSE 0

MilestoneNames == <<"1_month", "3_months", "6_months">>

MilestonePeriods == <<1, 3, 6>>

retention_milestones(t, means) ==
    [name \in Range(MilestoneNames) |->
        Milestone(t, means,
                  MilestonePeriods[CHOOSE i \in DOMAIN MilestoneNames :
                                       MilestoneNames[i] = name])]

RetentionInsights(t, means, col) ==
    [keys |-> IF IsEmptyTable(t) \/ Len(t.columns) <= 1 THEN {}
              ELSE {"avg_retention_by_period", "retention_milestones"}
                   \cup (IF Len(t.columns) >= 3 THEN {"best_cohort", "worst_cohort"}
                         ELSE {}),
     avg_retention_by_period |->
         Table([j \in DOMAIN means |-> [key |-> t.columns[j], value |-> Round3(means[j])]]),
     best_cohort  |-> CohortAtExtreme(t, col, IdxMax(col)),
     worst_cohort |-> CohortAtExtreme(t, col, IdxMin(col)),
     retention_milestones |->
         IF Len(t.columns) > 1 THEN retention_milestones(t, means) ELSE <<>>]

_calculate_retention_insights(t) ==
    RetentionInsights(t, ColumnMeans(t), ILocColumn(t, PeriodThreeColumn(t)))

(* The transitions i (0-based positions 1 .. min(6, len) - 1) whose        *)
(* previous mean is positive, and their decay 1 - avg[i] / avg[i - 1].     *)
Transitions(means) ==
    SelectSeq(Table([i \in 1..(MinOf({6, Len(means)}) - 1) |-> i]),
              LAMBDA i : means[i].num > 0)

decay_rates(means) ==
    Column(Transitions(means), LAMBDA i :
        QSub(Ratio(1, 1), QDiv(means[i + 1], means[i])))

(* np.mean(decay_rates)                                                    *)
avg_decay_rate(rates) == QDiv(QSum(rates), Ratio(Len(rates), 1))

(* max(0, x)                                                               *)
FloorZero(x) == IF x.num < 0 THEN Ratio(0, 1) ELSE x

(* The three values current_retention takes in the loop, each floored at 0 *)
(* when it is appended.                                                    *)
predicted_retention(last, keep) ==
    <<FloorZero(QMul(last, keep)),
      FloorZero(QMul(QMul(last, keep), keep)),
      FloorZero(QMul(QMul(QMul(last, keep), keep), keep))>>

TwelveMonths == 12

(* predictions, keep being 1 - avg_decay_rate; the 12 month estimate       *)
(* base * factor ^ power is held by its three parts.                       *)
RetentionPredictions(last, decay, keep) ==
    [keys |-> {"predicted_retention_next_3_months", "avg_monthly_decay_rate"}
              \cup (IF QLess(decay, Ratio(1, 2))
                    THEN {"estimated_12_month_retention"} ELSE {}),
     predicted_retention_next_3_months |->
         Column(predicted_retention(last, keep), Round3),
     avg_monthly_decay_rate |-> Round3(decay),
     estimated_12_month_retention |->
         [base |-> last, factor |-> keep, power |-> TwelveMonths]]

NoPredictions == [keys |-> {}]

PredictionsOfMeans(means, rates) ==
    IF rates = <<>> THEN NoPredictions
    ELSE RetentionPredictions(means[Len(means)], avg_decay_rate(rates),
                              QSub(Ratio(1, 1), avg_decay_rate(rates)))

_predict_retention_trends(t) ==
    IF IsEmptyTable(t) \/ Len(t.columns) <= 2 THEN NoPredictions
    ELSE PredictionsOfMeans(ColumnMeans(t), decay_rates(ColumnMeans(t)))

(* The tables as returned: retention_table.round(3) (times 1000),          *)
(* revenue_table.round(2) (cents) and count_table.astype(int).             *)
CohortResult(t) ==
    [period_number       |-> t.period_number,
     cohort_sizes        |-> t.cohort_sizes,
     raw_retention_table |-> t.retention_table,
     raw_revenue_table   |-> t.revenue_table,
     raw_count_table     |-> t.count_table,
     retention_table     |-> RoundCells(t.retention_table, 1000),
     revenue_table       |-> RoundCells(t.revenue_table, 1),
     count_table         |-> RoundCells(t.count_table, 1),
     retention_insights    |-> _calculate_retention_insights(t.retention_table),
     retention_predictions |-> _predict_retention_trends(t.retention_table)]

CohortOfMerged(m) ==
    CohortResult(CohortTables(m,
        SortedSeq({m[i].cohort_group : i \in DOMAIN m}),
        SortedSeq({m[i].period_number : i \in DOMAIN m})))

cohort_analysis ==
    /\ ret' = [op |-> "cohort_analysis", raised |-> FALSE,
               val |-> CohortOfMerged(Merged(df))]
    /\ UNCHANGED <<df, reference_date, rfm_data, segments, first_rfm>>

(* Datasets for the cohort engine: up to MaxCohortRows order lines of      *)
(* three customers on 31 January, 1 February and 16 March, listed in a     *)
(* fixed order of the line types.                                          *)
CohortRowTypes ==
    SortedKeys({<<c, date, amt>> : c \in {1, 2, 3}, date \in {30, 31, 75},
                                   amt \in {1000, 2555}})

CohortRow(k) ==
    [customer_id |-> k[1], order_date |-> k[2], product_name |-> "A",
     total_amount |-> k[3]]

RECURSIVE SortedIdx(_, _)
SortedIdx(k, n) ==
    IF k = 0 THEN {<<>>}
    ELSE UNION {{Append(s, t) : t \in {u \in 1..n : s = <<>> \/ s[Len(s)] <= u}} :
                s \in SortedIdx(k - 1, n)}

InitCohort ==
    \E k \in 1..MaxCohortRows : \E s \in SortedIdx(k, Len(CohortRowTypes)) :
        Construct(Column(s, LAMBDA i : CohortRow(CohortRowTypes[i])))

(* Datasets for the retention insights: customers 1..n, each with one      *)
(* order on the first day of each month of one profile (January is month   *)
(* 1).                                                                     *)
RetentionProfiles ==
    <<<<1>>, <<1, 2>>, <<1, 3>>, <<1, 2, 3>>, <<2>>, <<2, 3>>,
      <<1, 4>>, <<1, 2, 3, 4>>, <<1, 7>>, <<1, 2, 3, 4, 5, 6, 7>>>>

MonthlyOrders(c, months) ==
    Column(months, LAMBDA m : [customer_id |-> c, order_date |-> MonthStarts[m],
                               product_name |-> "A", total_amount |-> 1000])

RetentionDF(n, ps) ==
    Flatten(Table([c \in 1..n |-> MonthlyOrders(c, RetentionProfiles[ps[c]])]))

InitRetention ==
    \E n \in 1..MaxRetentionCust : \E ps \in [1..n -> DOMAIN RetentionProfiles] :
        Construct(RetentionDF(n, ps))

NextCohort == cohort_analysis

SpecCohort == InitCohort /\ [][NextCohort]_vars

SpecRetention == InitRetention /\ [][NextCohort]_vars

-----------------------------------------------------------------------------
(* Properties of the cohort engine.  The cohorts, their members and the    *)
(* totals of a (cohort, period) cell are computed here from df itself.     *)

IsCohort == ret.op = "cohort_analysis"

Customers == {df[i].customer_id : i \in DOMAIN df}

OrderMonths(c) ==
    {ToPeriodM(df[i].order_date) : i \in {j \in DOMAIN df : df[j].customer_id = c}}

(* The customers whose first order is in month g.                          *)
CohortMembers(g) == {c \in Customers : MinOf(OrderMonths(c)) = g}

(* The members of cohort g with an order p months after g.                 *)
ActiveIn(g, p) == {c \in CohortMembers(g) : g + p \in OrderMonths(c)}

(* The total of total_amount over the orders of cohort g in period p.      *)
TotalIn(g, p) ==
    SumSeq(Column(SelectSeq(df, LAMBDA r : /\ r.customer_id \in CohortMembers(g)
                                          /\ ToPeriodM(r.order_date) = g + p),
                  LAMBDA r : r.total_amount))

(* The cells of the returned tables, as pairs of positions.                *)
Cells == {<<i, j>> : i \in DOMAIN ret.val.retention_table.index,
                     j \in DOMAIN ret.val.retention_table.columns}

CohortAt(c) == ret.val.retention_table.index[c[1]]

PeriodAt(c) == ret.val.retention_table.columns[c[2]]

Cell(t, c) == t.cells[c[1]][c[2]]

SameShape(t) ==
    /\ t.index = ret.val.retention_table.index
    /\ t.columns = ret.val.retention_table.columns

(* C8: every transaction's period_number is >= 0, and for every cohort the *)
(* retention_table cell at period 0 is 1.0 (1000 thousandths) and the      *)
(* count_table cell at period 0 is the cohort size.                        *)
C8_PeriodZero ==
    IsCohort =>
      /\ \A i \in DOMAIN ret.val.period_number : ret.val.period_number[i] >= 0
      /\ ret.val.retention_table.columns[1] = 0
      /\ SameShape(ret.val.count_table)
      /\ \A i \in DOMAIN ret.val.retention_table.index :
            /\ ret.val.retention_table.cells[i][1] = Ratio(1000, 1)
            /\ ret.val.raw_retention_table.cells[i][1].num
                 = ret.val.raw_retention_table.cells[i][1].den
            /\ ret.val.count_table.cells[i][1]
                 = Ratio(Cardinality(CohortMembers(ret.val.retention_table.index[i])), 1)
            /\ ret.val.cohort_sizes[i]
                 = [key   |-> ret.val.retention_table.index[i],
                    value |-> Cardinality(CohortMembers(ret.val.retention_table.index[i]))]

(* A result with two cohorts, a cohort of two or more customers and an     *)
(* order in a later month than its customer's first.                       *)
C8_Witness ==
    /\ IsCohort
    /\ Len(ret.val.retention_table.index) >= 2
    /\ \E i \in DOMAIN ret.val.cohort_sizes : ret.val.cohort_sizes[i].value >= 2
    /\ \E i \in DOMAIN ret.val.period_number : ret.val.period_number[i] > 0

C10_RetentionCells ==
    IsCohort =>
      /\ SameShape(ret.val.revenue_table) /\ SameShape(ret.val.count_table)
      /\ \A c \in Cells :
            /\ ~Cell(ret.val.raw_retention_table, c).nan
            /\ ~Cell(ret.val.retention_table, c).nan
            /\ ~Cell(ret.val.revenue_table, c).nan
            /\ ~Cell(ret.val.count_table, c).nan
            /\ Cell(ret.val.raw_retention_table, c).num
                  * Cardinality(CohortMembers(CohortAt(c)))
                 = Cardinality(ActiveIn(CohortAt(c), PeriodAt(c)))
                  * Cell(ret.val.raw_retention_table, c).den
            /\ Cell(ret.val.raw_retention_table, c).num >= 0
            /\ Cell(ret.val.raw_retention_table, c).num
                 <= Cell(ret.val.raw_retention_table, c).den
            /\ Cell(ret.val.retention_table, c).num
                 = RoundHalfEven(Cardinality(ActiveIn(CohortAt(c), PeriodAt(c))) * 1000,
                                 Cardinality(CohortMembers(CohortAt(c))))
            /\ Cell(ret.val.retention_table, c).num \in 0..1000
            /\ Cell(ret.val.count_table, c).num
                 <= Cardinality(CohortMembers(CohortAt(c)))
            /\ ActiveIn(CohortAt(c), PeriodAt(c)) = {}
                 => /\ Cell(ret.val.retention_table, c).num = 0
                    /\ Cell(ret.val.revenue_table, c).num = 0
                    /\ Cell(ret.val.count_table, c).num = 0

(* A result with a cell without orders and a cell in which only part of    *)
(* the cohort ordered.                                                     *)
C10_Witness ==
    /\ IsCohort
    /\ \E c \in Cells : ActiveIn(CohortAt(c), PeriodAt(c)) = {}
    /\ \E c \in Cells :
          /\ Cell(ret.val.raw_retention_table, c).num > 0
          /\ Cell(ret.val.raw_retention_table, c).num
               < Cell(ret.val.raw_retention_table, c).den

(* Properties of the retention insights and predictions.                   *)

Insights == ret.val.retention_insights

Predictions == ret.val.retention_predictions

Cohorts == {MinOf(OrderMonths(c)) : c \in Customers}

(* The period numbers of the data: the months between a customer's first   *)
(* order and any of their orders.                                          *)
PeriodsOf(c) == {m - MinOf(OrderMonths(c)) : m \in OrderMonths(c)}

DataPeriods == UNION {PeriodsOf(c) : c \in Customers}

MilestoneOf == {<<"1_month", 1>>, <<"3_months", 3>>, <<"6_months", 6>>}

(* C24: each of the milestones 1_month, 3_months and 6_months is present   *)
(* in retention_milestones only if the data contains period 1, 3, 6        *)
(* respectively; a milestone whose period does not exist is absent.        *)
C24_MilestonesOnlyIfPeriod ==
    (IsCohort /\ "retention_milestones" \in Insights.keys) =>
        \A m \in MilestoneOf :
            m[1] \in DOMAIN Insights.retention_milestones => m[2] \in DataPeriods

(* Retention of cohort g at period p is at least that of cohort h.         *)
RetainsAtLeast(g, h, p) ==
    Cardinality(ActiveIn(g, p)) * Cardinality(CohortMembers(h))
        >= Cardinality(ActiveIn(h, p)) * Cardinality(CohortMembers(g))

SameValue(a, b) == a.num * b.den = b.num * a.den

RateAt(g, p) == Q(Cardinality(ActiveIn(g, p)), Cardinality(CohortMembers(g)))

(* C25: when best_cohort and worst_cohort are reported, period 3 exists in *)
(* the data and they are the cohorts with the maximum and the minimum      *)
(* retention rate at period_number 3, reported with that rate.             *)
C25_BestWorstAtPeriodThree ==
    (IsCohort /\ "best_cohort" \in Insights.keys) =>
        /\ "worst_cohort" \in Insights.keys
        /\ 3 \in DataPeriods
        /\ Insights.best_cohort.period \in Cohorts
        /\ Insights.worst_cohort.period \in Cohorts
        /\ \A h \in Cohorts : RetainsAtLeast(Insights.best_cohort.period, h, 3)
        /\ \A h \in Cohorts : RetainsAtLeast(h, Insights.worst_cohort.period, 3)
        /\ SameValue(Insights.best_cohort.retention_rate,
                     RateAt(Insights.best_cohort.period, 3))
        /\ SameValue(Insights.worst_cohort.retention_rate,
                     RateAt(Insights.worst_cohort.period, 3))

(* The average retention curve of the data: for every period of the data,  *)
(* in ascending order, the mean over the cohorts of the retention rate.    *)
AverageCurve ==
    Column(SortedSeq(DataPeriods), LAMBDA p :
        QDiv(QSum(Column(SortedSeq(Cohorts), LAMBDA g : RateAt(g, p))),
             Ratio(Cardinality(Cohorts), 1)))

(* The decays 1 - avg[i]/avg[i-1] of the first (at most 5) transitions.    *)
FirstDecays ==
    Table([i \in 1..MinOf({5, Len(AverageCurve) - 1}) |->
        QSub(Ratio(1, 1), QDiv(AverageCurve[i + 1], AverageCurve[i]))])

AverageDecay == QDiv(QSum(FirstDecays), Ratio(Len(FirstDecays), 1))

LastKnown == AverageCurve[Len(AverageCurve)]

RECURSIVE Compound(_, _, _)
Compound(x, keep, k) == IF k = 0 THEN x ELSE Compound(QMul(x, keep), keep, k - 1)

Projected == Predictions.predicted_retention_next_3_months

(* C26: the decay is averaged over at most the first 5 transitions of the  *)
(* average retention curve, exactly 3 further periods are projected as     *)
(* last * (1 - avg_decay)^k, estimated_12_month_retention is emitted       *)
(* exactly when avg_decay < 0.5, and every projected value is >= 0 and     *)
(* none is above the last known average retention.                         *)
C26_RetentionTrends ==
    (IsCohort /\ Predictions.keys # {}) =>
        /\ Predictions.avg_monthly_decay_rate = Round3(AverageDecay)
        /\ Len(Projected) = 3
        /\ \A k \in 1..3 :
               Projected[k] =
                   Round3(Compound(LastKnown, QSub(Ratio(1, 1), AverageDecay), k))
        /\ "estimated_12_month_retention" \in Predictions.keys
               <=> QLess(AverageDecay, Ratio(1, 2))
        /\ \A k \in 1..3 : Projected[k] >= 0 /\ Projected[k] <= Round3(LastKnown)
        /\ "estimated_12_month_retention" \in Predictions.keys =>
               /\ Predictions.estimated_12_month_retention.base = LastKnown
               /\ Predictions.estimated_12_month_retention.power = 12
               /\ ~QLess(Predictions.estimated_12_month_retention.factor, Ratio(0, 1))
               /\ ~QLess(Ratio(1, 1), Predictions.estimated_12_month_retention.factor)

(* The parts of C26 other than the bound by the last known retention.      *)
RetentionTrendsComputed ==
    (IsCohort /\ Predictions.keys # {}) =>
        /\ Predictions.avg_monthly_decay_rate = Round3(AverageDecay)
        /\ Len(Projected) = 3
        /\ \A k \in 1..3 :
               Projected[k] =
                   Round3(Compound(LastKnown, QSub(Ratio(1, 1), AverageDecay), k))
        /\ "estimated_12_month_retention" \in Predictions.keys
               <=> QLess(AverageDecay, Ratio(1, 2))
        /\ \A k \in 1..3 : Projected[k] >= 0

-----------------------------------------------------------------------------
(* The churn risk engine.  A float is a cell [nan, num, den]: the exact    *)
(* ratio num/den in lowest terms with den > 0, infinity as 1/0, or NaN.    *)

(* Series.std() (ddof = 1) of the amounts, rounded to whole cents: the     *)
(* integer nearest to the square root of N/D, found between lo and hi.     *)
RECURSIVE RoundSqrt(_, _, _, _)
RoundSqrt(N, D, lo, hi) ==
    IF lo = hi THEN lo
    ELSE IF (2 * ((lo + hi + 1) \div 2) - 1) * (2 * ((lo + hi + 1) \div 2) - 1) * D
              <= 4 * N
         THEN RoundSqrt(N, D, (lo + hi + 1) \div 2, hi)
         ELSE RoundSqrt(N, D, lo, (lo + hi + 1) \div 2 - 1)

SumSquares(amts) == SumSeq(Column(amts, LAMBDA x : x * x))

(* order_value_std: NaN for a single order.                                *)
order_value_std(amts) ==
    IF Len(amts) < 2 THEN NaNCell
    ELSE Ratio(RoundSqrt(Len(amts) * SumSquares(amts) - SumSeq(amts) * SumSeq(amts),
                         Len(amts) * (Len(amts) - 1),
                         0, MaxOf(Range(amts))),
               1)

(* One row of customer_behavior, from the rows of customer c.              *)
BehaviorRow(c, rows, amts, ref) ==
    [customer_id      |-> c,
     total_orders     |-> Len(rows),
     first_purchase   |-> MinOf({rows[i].order_date : i \in DOMAIN rows}),
     last_purchase    |-> MaxOf({rows[i].order_date : i \in DOMAIN rows}),
     avg_order_value  |-> RoundHalfEven(SumSeq(amts), Len(rows)),
     order_value_std  |-> order_value_std(amts),
     total_spent      |-> SumSeq(amts),
     unique_products  |-> Cardinality({rows[i].product_name : i \in DOMAIN rows}),
     days_since_first |-> ref - MinOf({rows[i].order_date : i \in DOMAIN rows})]

Behavior(d, c, ref) ==
    BehaviorRow(c, RowsOf(d, c), Column(RowsOf(d, c), LAMBDA r : r.total_amount), ref)

(* purchase_consistency = order_value_std / avg_order_value                *)
purchase_consistency(b) ==
    IF b.order_value_std.nan THEN NaNCell
    ELSE IF b.avg_order_value = 0
         THEN (IF b.order_value_std.num = 0 THEN NaNCell ELSE Infinity)
         ELSE Q(b.order_value_std.num, b.avg_order_value)

(* purchase_diversity = unique_products / total_orders                     *)
purchase_diversity(b) == Q(b.unique_products, b.total_orders)

(* order_frequency = total_orders / days_since_first * 30: a division by   *)
(* zero days gives infinity.                                               *)
order_frequency(b) ==
    IF b.days_since_first = 0 THEN Infinity
    ELSE Q(b.total_orders * 30, b.days_since_first)

(* (1 / (order_frequency + 0.1)) * 100 * 0.15                              *)
FrequencyTrendTerm(f) ==
    IF f.den = 0 THEN Ratio(0, 1)
    ELSE Q(150 * f.den, 10 * f.num + f.den)

(* Series.fillna(v)                                                        *)
FillNaN(x, v) == IF x.nan THEN v ELSE x

(* (6 - x) * 8 * 0.20                                                      *)
ScoreTerm(x) == Q((6 - x) * 8, 5)

(* The churn composite of one row of the merged table: rf is the row of    *)
(* rfm_data and b the row of customer_behavior.                            *)
RawChurnScore(rf, b) ==
    QAdd(QAdd(QAdd(Q(rf.recency, 4), ScoreTerm(rf.frequency)),
              QAdd(ScoreTerm(rf.M_score), FrequencyTrendTerm(order_frequency(b)))),
         QAdd(Q(FillNaN(purchase_consistency(b), Ratio(1, 1)).num * 2,
                FillNaN(purchase_consistency(b), Ratio(1, 1)).den),
              Q((FillNaN(purchase_diversity(b), Ratio(1, 2)).den
                   - FillNaN(purchase_diversity(b), Ratio(1, 2)).num) * 5,
                FillNaN(purchase_diversity(b), Ratio(1, 2)).den)))

(* x / (max - min) * 100                                                   *)
NormalizeUnshifted(x, lo, hi) ==
    IF hi = lo THEN NaNCell
    ELSE Q(QDiv(x, QSub(hi, lo)).num * 100, QDiv(x, QSub(hi, lo)).den)

(* (x - min) / (max - min) * 100: 0/0 is NaN when max = min.               *)
Normalize(x, lo, hi) ==
    IF hi = lo THEN NaNCell
    ELSE Q(QDiv(QSub(x, lo), QSub(hi, lo)).num * 100,
           QDiv(QSub(x, lo), QSub(hi, lo)).den)

RiskLevels == <<"Low", "Medium", "High", "Critical">>

RiskBins == <<0, 25, 50, 75, 100>>

Missing == "NaN"

(* The cut without include_lowest: the lowest edge belongs to no bin.      *)
RiskLevelLowestOpen(score) ==
    IF score.nan \/ score.num <= RiskBins[1] * score.den
                 \/ score.num > RiskBins[Len(RiskBins)] * score.den
    THEN Missing
    ELSE RiskLevels[Cardinality({k \in DOMAIN RiskBins :
                                    RiskBins[k] * score.den < score.num})]

(* pd.cut(churn_score, bins, labels, include_lowest=True): the label of    *)
(* the bin (bins[k], bins[k+1]] holding the score, the lowest edge         *)
(* included; a NaN score or one outside the bins has no label.             *)
risk_level(score) ==
    IF score.nan \/ score.num < RiskBins[1] * score.den
                 \/ score.num > RiskBins[Len(RiskBins)] * score.den
    THEN Missing
    ELSE IF score.num = RiskBins[1] * score.den THEN RiskLevels[1]
    ELSE RiskLevels[Cardinality({k \in DOMAIN RiskBins :
                                    RiskBins[k] * score.den < score.num})]

(* (churn_score / 100 * 0.8 + 0.1).round(3), in thousandths.               *)
churn_probability(score) ==
    IF score.nan THEN NaNCell
    ELSE Ratio(100 + 8 * (score.num \div score.den)
                   + RoundHalfEven(8 * (score.num % score.den), score.den), 1)

get_retention_strategy(level) ==
    IF level = "Critical"
    THEN "Immediate intervention: Personal outreach + special offers"
    ELSE IF level = "High"
    THEN "Urgent: Targeted discounts + engagement campaigns"
    ELSE IF level = "Medium"
    THEN "Monitor closely + personalized recommendations"
    ELSE "Maintain: Regular marketing + loyalty programs"

(* One row of churn_data: rf of rfm_data, b of customer_behavior, raw the  *)
(* composite and score the normalized churn_score.                         *)
ChurnRow(rf, b, raw, score) ==
    [customer_id          |-> rf.customer_id,
     recency              |-> rf.recency,
     frequency            |-> rf.frequency,
     monetary             |-> rf.monetary,
     segment              |-> rf.segment,
     raw_score            |-> raw,
     churn_score          |-> score,
     churn_probability    |-> churn_probability(score),
     risk_level           |-> risk_level(score),
     retention_strategy   |-> get_retention_strategy(risk_level(score)),
     order_frequency      |-> order_frequency(b),
     purchase_consistency |-> purchase_consistency(b),
     purchase_diversity   |-> purchase_diversity(b)]

NormalizedRows(t, beh, raws, lo, hi) ==
    Table([i \in DOMAIN t |->
        ChurnRow(t[i], beh[i], raws[i], Normalize(raws[i], lo, hi))])

ScoredRows(t, beh, raws) ==
    NormalizedRows(t, beh, raws, MinQ(Range(raws)), MaxQ(Range(raws)))

MergedChurn(t, beh) ==
    ScoredRows(t, beh, Table([i \in DOMAIN t |-> RawChurnScore(t[i], beh[i])]))

(* churn_data before the sort: t is rfm_data, merged on customer_id with   *)
(* the customer_behavior of d.                                             *)
ChurnTable(t, d, ref) ==
    MergedChurn(t, Column(t, LAMBDA rf : Behavior(d, rf.customer_id, ref)))

(* Row i may stand before row j after an ascending sort of churn_score.    *)
MayPrecedeAscending(t, i, j) ==
    IF t[i].churn_score.nan /\ t[j].churn_score.nan THEN i < j
    ELSE IF t[i].churn_score.nan THEN FALSE
    ELSE IF t[j].churn_score.nan THEN TRUE
    ELSE ~QLess(t[j].churn_score, t[i].churn_score)

(* Row i may stand before row j after sort_values('churn_score',           *)
(* ascending=False): the default quicksort fixes no order of equal scores; *)
(* rows with a NaN score come last, in their original order.               *)
MayPrecede(t, i, j) ==
    IF t[i].churn_score.nan /\ t[j].churn_score.nan THEN i < j
    ELSE IF t[i].churn_score.nan THEN FALSE
    ELSE IF t[j].churn_score.nan THEN TRUE
    ELSE ~QLess(t[i].churn_score, t[j].churn_score)

(* The row orders sort_values may return.                                  *)
SortOrders(t) ==
    {p \in Permutations(DOMAIN t) :
        \A i, j \in DOMAIN t : i < j => MayPrecede(t, p[i], p[j])}

Reorder(t, p) == Table([i \in DOMAIN t |-> t[p[i]]])

identify_churn_risk ==
    \E cache \in {EnsureRFM(rfm_data, df, reference_date)} :
       /\ rfm_data' = cache
       /\ IF cache.isNone \/ cache.table = <<>>
          THEN ret' = [op |-> "identify_churn_risk", raised |-> FALSE, val |-> <<>>]
          ELSE \E t \in {ChurnTable(cache.table, df, reference_date)} :
               \E p \in SortOrders(t) :
                  ret' = [op |-> "identify_churn_risk", raised |-> FALSE,
                          val |-> Reorder(t, p)]
       /\ UNCHANGED <<df, reference_date, segments, first_rfm>>

(* Datasets for the churn engine: customers 1..n, each with the order      *)
(* lines of one profile (dates, amounts in cents, products), customer by   *)
(* customer.                                                               *)
ChurnProfiles ==
    <<[dates |-> <<60>>, amts |-> <<2000>>, prods |-> <<"A">>],
      [dates |-> <<60, 60, 60, 60, 60>>, amts |-> <<300, 300, 300, 300, 300>>,
       prods |-> <<"A", "B", "C", "A", "B">>],
      [dates |-> <<0, 30>>, amts |-> <<700, 900>>, prods |-> <<"A", "B">>],
      [dates |-> <<0, 0, 30, 30, 30, 60, 60>>,
       amts |-> <<100, 100, 100, 100, 100, 100, 100>>,
       prods |-> <<"A", "A", "A", "A", "A", "A", "A">>],
      [dates |-> <<0>>, amts |-> <<1000>>, prods |-> <<"B">>],
      [dates |-> <<0, 30, 60>>, amts |-> <<400, 600, 800>>,
       prods |-> <<"A", "B", "C">>]>>

ProfileRows(c, pr) ==
    Table([j \in DOMAIN pr.dates |->
        [customer_id  |-> c,
         order_date   |-> pr.dates[j],
         product_name |-> pr.prods[j],
         total_amount |-> pr.amts[j]]])

RECURSIVE ProfileDF(_, _)
ProfileDF(n, ps) ==
    IF n = 0 THEN <<>>
    ELSE ProfileDF(n - 1, ps) \o ProfileRows(n, ChurnProfiles[ps[n]])

InitChurn ==
    \E n \in 1..MaxChurnCust : \E ps \in [1..n -> DOMAIN ChurnProfiles] :
        Construct(ProfileDF(n, ps))

NextChurn == identify_churn_risk

SpecChurn == InitChurn /\ [][NextChurn]_vars

-----------------------------------------------------------------------------
(* Properties of the churn risk engine.                                    *)

IsChurn == ret.op = "identify_churn_risk"

(* The row of the cached RFM table of the customer of churn row r.         *)
RfmOf(r) ==
    rfm_data.table[CHOOSE i \in DOMAIN rfm_data.table :
                      rfm_data.table[i].customer_id = r.customer_id]

(* The composite with the frequency score in its frequency term.           *)
CompositeOfScores(r, F_score, M_score) ==
    QAdd(QAdd(QAdd(Q(r.recency, 4), ScoreTerm(F_score)),
              QAdd(ScoreTerm(M_score), FrequencyTrendTerm(r.order_frequency))),
         QAdd(Q(FillNaN(r.purchase_consistency, Ratio(1, 1)).num * 2,
                FillNaN(r.purchase_consistency, Ratio(1, 1)).den),
              Q((FillNaN(r.purchase_diversity, Ratio(1, 2)).den
                   - FillNaN(r.purchase_diversity, Ratio(1, 2)).num) * 5,
                FillNaN(r.purchase_diversity, Ratio(1, 2)).den)))

(* C11: the raw composite of every row is recency*0.25 + (6 - F_score)*1.6 *)
(* + (6 - M_score)*1.6 + 15/(order_frequency + 0.1) + consistency*2 +      *)
(* (1 - diversity)*5 with the customer's frequency score, missing          *)
(* consistency and diversity being 1.0 and 0.5, so that the frequency term *)
(* the code adds lies between 1.6 and 8.                                   *)
C11_RawComposite ==
    IsChurn =>
      \A i \in DOMAIN ret.val :
        /\ ret.val[i].raw_score
             = CompositeOfScores(ret.val[i], RfmOf(ret.val[i]).F_score,
                                 RfmOf(ret.val[i]).M_score)
        /\ ~QLess(ScoreTerm(ret.val[i].frequency), Ratio(8, 5))
        /\ ~QLess(Ratio(8, 1), ScoreTerm(ret.val[i].frequency))

(* The raw composites of the returned rows take two or more values.        *)
DistinctComposites ==
    \E i, j \in DOMAIN ret.val : ret.val[i].raw_score # ret.val[j].raw_score

(* 0 <= x <= 100 for a finite x.                                           *)
InPercentRange(x) == ~x.nan /\ x.den > 0 /\ 0 <= x.num /\ x.num <= 100 * x.den

(* C12: when the raw composites take at least 2 distinct values, every     *)
(* churn_score returned by identify_churn_risk is within [0, 100].         *)
C12_ScoreRange ==
    (IsChurn /\ DistinctComposites) =>
      \A i \in DOMAIN ret.val : InPercentRange(ret.val[i].churn_score)

(* Three or more customers, one of them strictly between the extremes.     *)
C12_Witness ==
    /\ IsChurn /\ DistinctComposites
    /\ Len(ret.val) >= 3
    /\ \E i \in DOMAIN ret.val :
          /\ ~ret.val[i].churn_score.nan
          /\ 0 < ret.val[i].churn_score.num
          /\ ret.val[i].churn_score.num < 100 * ret.val[i].churn_score.den

(* C13: every returned customer has churn_probability = churn_score/100 *  *)
(* 0.8 + 0.1 (to the 3 decimals kept) and 0.1 <= churn_probability <= 0.9. *)
C13_Probability ==
    IsChurn =>
      \A i \in DOMAIN ret.val :
        /\ ~ret.val[i].churn_score.nan
        /\ ~ret.val[i].churn_probability.nan
        /\ 2 * Abs(ret.val[i].churn_probability.num * ret.val[i].churn_score.den
                   - (8 * ret.val[i].churn_score.num + 100 * ret.val[i].churn_score.den))
             <= ret.val[i].churn_score.den
        /\ 100 <= ret.val[i].churn_probability.num
        /\ ret.val[i].churn_probability.num <= 900

(* The tier of a score by the intervals [0,25], (25,50], (50,75],          *)
(* (75,100], written out.                                                  *)
TierOf(x) ==
    IF x.num <= 25 * x.den THEN "Low"
    ELSE IF x.num <= 50 * x.den THEN "Medium"
    ELSE IF x.num <= 75 * x.den THEN "High"
    ELSE "Critical"

StrategyOf(level) ==
    CASE level = "Critical" ->
           "Immediate intervention: Personal outreach + special offers"
      [] level = "High" -> "Urgent: Targeted discounts + engagement campaigns"
      [] level = "Medium" -> "Monitor closely + personalized recommendations"
      [] level = "Low" -> "Maintain: Regular marketing + loyalty programs"
      [] OTHER -> "none"

(* C14: every returned customer has exactly one risk_level, the tier of    *)
(* its churn_score (Low [0,25], Medium (25,50], High (50,75], Critical     *)
(* (75,100]), and its retention_strategy is the one of that risk_level.    *)
C14_RiskLevel ==
    IsChurn =>
      \A i \in DOMAIN ret.val :
        /\ ret.val[i].risk_level \in Range(RiskLevels)
        /\ InPercentRange(ret.val[i].churn_score)
        /\ ret.val[i].risk_level = TierOf(ret.val[i].churn_score)
        /\ ret.val[i].retention_strategy = StrategyOf(ret.val[i].risk_level)

(* The position of the customer of churn row r in the RFM table.           *)
RfmIndex(r) ==
    CHOOSE i \in DOMAIN rfm_data.table :
        rfm_data.table[i].customer_id = r.customer_id

SameScore(a, b) == a.churn_score = b.churn_score

(* C15 as stated: the rows are ordered by churn_score descending and       *)
(* customers with equal churn_score keep the relative order they had in    *)
(* the RFM table.                                                          *)
C15_SortedStable ==
    IsChurn =>
      \A i, j \in DOMAIN ret.val :
        i < j =>
          IF SameScore(ret.val[i], ret.val[j])
          THEN RfmIndex(ret.val[i]) < RfmIndex(ret.val[j])
          ELSE /\ ~ret.val[i].churn_score.nan /\ ~ret.val[j].churn_score.nan
               /\ QLess(ret.val[j].churn_score, ret.val[i].churn_score)

(* C15 as the code has it: the rows are the customers of the RFM table,    *)
(* each once, and no row with a defined churn_score stands before a row    *)
(* with a greater one; the order of equal scores is not fixed.             *)
C15_SortedDescending ==
    IsChurn =>
      /\ \A i, j \in DOMAIN ret.val :
            (i < j /\ ~ret.val[i].churn_score.nan /\ ~ret.val[j].churn_score.nan)
              => ~QLess(ret.val[i].churn_score, ret.val[j].churn_score)
      /\ \A i, j \in DOMAIN ret.val :
            i # j => ret.val[i].customer_id # ret.val[j].customer_id
      /\ ret.val # <<>> =>
            {ret.val[i].customer_id : i \in DOMAIN ret.val}
              = {rfm_data.table[i].customer_id : i \in DOMAIN rfm_data.table}

(* A returned table with two scores, in which two customers of equal       *)
(* score stand in the reverse of their RFM order.                          *)
C15_Witness ==
    /\ IsChurn /\ DistinctComposites
    /\ \E i, j \in DOMAIN ret.val :
          /\ i < j
          /\ SameScore(ret.val[i], ret.val[j])
          /\ ~ret.val[i].churn_score.nan
          /\ RfmIndex(ret.val[i]) > RfmIndex(ret.val[j])
    /\ \E i, j \in DOMAIN ret.val :
          /\ i < j
          /\ QLess(ret.val[j].churn_score, ret.val[i].churn_score)

(* C17: for every returned customer churn_score, risk_level and            *)
(* order_frequency are defined finite values: no NaN, no infinity, no      *)
(* missing tier.                                                           *)
C17_FiniteOutput ==
    IsChurn =>
      \A i \in DOMAIN ret.val :
        /\ IsFinite(ret.val[i].churn_score)
        /\ ret.val[i].risk_level # Missing
        /\ IsFinite(ret.val[i].order_frequency)

(* The same without order_frequency: churn_score and risk_level only.      *)
C17_ScoreDefined ==
    IsChurn =>
      \A i \in DOMAIN ret.val :
        /\ IsFinite(ret.val[i].churn_score)
        /\ ret.val[i].risk_level # Missing

(* churn_score = v, for a whole v.                                         *)
ScoreIs(r, v) ==
    ~r.churn_score.nan /\ r.churn_score.den > 0 /\ r.churn_score.num = v * r.churn_score.den

(* C30: whenever identify_churn_risk returns a table whose raw composites  *)
(* take at least 2 distinct values, the first row has churn_score 100,     *)
(* risk_level Critical and churn_probability 0.9, and the last row has     *)
(* churn_score 0, risk_level Low and churn_probability 0.1, whatever the   *)
(* absolute risk of the customers.                                         *)
C30_RelativeExtremes ==
    (IsChurn /\ DistinctComposites) =>
        /\ ScoreIs(ret.val[1], 100)
        /\ ret.val[1].risk_level = "Critical"
        /\ ret.val[1].churn_probability = Ratio(900, 1)
        /\ ScoreIs(ret.val[Len(ret.val)], 0)
        /\ ret.val[Len(ret.val)].risk_level = "Low"
        /\ ret.val[Len(ret.val)].churn_probability = Ratio(100, 1)

(* All customers ordered on the reference date, and still one of them is   *)
(* Critical and one is Low.                                                *)
C30_Witness ==
    /\ IsChurn /\ DistinctComposites
    /\ \A i \in DOMAIN ret.val : ret.val[i].recency = 0
    /\ ScoreIs(ret.val[1], 100) /\ ret.val[1].risk_level = "Critical"
    /\ ScoreIs(ret.val[Len(ret.val)], 0) /\ ret.val[Len(ret.val)].risk_level = "Low"

-----------------------------------------------------------------------------
(* Customer journey engine.                                                *)

(* The rows of one customer after sort_values(['customer_id',              *)
(* 'order_date']): by order_date, equal dates in row order.                *)
SortByDate(rows) ==
    Table([k \in DOMAIN rows |->
        rows[CHOOSE i \in DOMAIN rows :
              k = 1 + Cardinality({j \in DOMAIN rows :
                        \/ rows[j].order_date < rows[i].order_date
                        \/ (rows[j].order_date = rows[i].order_date /\ j < i)})]])

customer_orders(d, c) == SortByDate(RowsOf(d, c))

OrderDates(rows) == {rows[i].order_date : i \in DOMAIN rows}

Amounts(rows) == Column(rows, LAMBDA r : r.total_amount)

(* The stage rules with the Loyal spending test taken against the mean     *)
(* times the order count, which is the total itself.                       *)
StageSpentOverTotal(days_since_first, order_count, total_spent, days_since_last) ==
    IF days_since_first <= 30 THEN "New"
    ELSE IF days_since_first <= 90 /\ order_count >= 2 THEN "Developing"
    ELSE IF order_count >= 5 /\ total_spent * order_count > total_spent * order_count
    THEN "Loyal"
    ELSE IF days_since_last > 90 THEN "Inactive"
    ELSE "Regular"

(* The stage rules with Loyal tried before Developing.                     *)
StageLoyalFirst(days_since_first, order_count, total_spent, days_since_last) ==
    IF days_since_first <= 30 THEN "New"
    ELSE IF order_count >= 5 /\ total_spent * order_count > total_spent * 2
    THEN "Loyal"
    ELSE IF days_since_first <= 90 /\ order_count >= 2 THEN "Developing"
    ELSE IF days_since_last > 90 THEN "Inactive"
    ELSE "Regular"

(* get_customer_stage, from the customer's days since the first and the    *)
(* last order, order count and total spent; the mean is total_spent /      *)
(* order_count, so total_spent > mean * 2 is compared after multiplying    *)
(* both sides by order_count.                                              *)
Stage(days_since_first, order_count, total_spent, days_since_last) ==
    IF days_since_first <= 30 THEN "New"
    ELSE IF days_since_first <= 90 /\ order_count >= 2 THEN "Developing"
    ELSE IF order_count >= 5 /\ total_spent * order_count > total_spent * 2
    THEN "Loyal"
    ELSE IF days_since_last > 90 THEN "Inactive"
    ELSE "Regular"

get_customer_stage(customer_data, ref) ==
    Stage(ref - MinOf(OrderDates(customer_data)), Len(customer_data),
          SumSeq(Amounts(customer_data)), ref - MaxOf(OrderDates(customer_data)))

(* The greatest common divisor of a list of amounts (1 when all are 0).    *)
RECURSIVE GCDSeq(_)
GCDSeq(s) ==
    IF s = <<>> THEN 0 ELSE GCD(Abs(Head(s)), GCDSeq(Tail(s)))

Scaled(amts) ==
    IF GCDSeq(amts) = 0 THEN amts
    ELSE Column(amts, LAMBDA x : x \div GCDSeq(amts))

(* round(std / mean, 2) times 100 of amounts a with positive sum, n =      *)
(* Len(a) >= 2: the square root of 10^4 n (n SS - S^2) / ((n - 1) S^2).    *)
RoundedVariation(a) ==
    RoundSqrt(10000 * Len(a) * (Len(a) * SumSquares(a) - SumSeq(a) * SumSeq(a)),
              (Len(a) - 1) * SumSeq(a) * SumSeq(a),
              0, 100 * Len(a))

(* value_volatility = std / avg_order_value if avg_order_value > 0 else 0, *)
(* rounded to 2 decimals and kept times 100; NaN for a single order.  The  *)
(* quotient does not change when all amounts are divided by their common   *)
(* divisor.                                                                *)
value_volatility(amts) ==
    IF SumSeq(amts) <= 0 THEN Ratio(0, 1)
    ELSE IF Len(amts) < 2 THEN NaNCell
    ELSE Ratio(RoundedVariation(Scaled(amts)), 1)

FirstTen == 10

(* customer_journeys[customer_id]; order_frequency, product_diversity and  *)
(* value_volatility are kept times 100, money in cents.                    *)
JourneyRecord(c, rows, ref) ==
    [customer_id         |-> c,
     current_stage       |-> get_customer_stage(rows, ref),
     journey_length_days |-> MaxOf(OrderDates(rows)) - MinOf(OrderDates(rows)),
     total_touchpoints   |-> Len(rows),
     order_frequency     |->
         RoundHalfEven(Len(rows) * 3000,
                       MaxOf({MaxOf(OrderDates(rows)) - MinOf(OrderDates(rows)), 1})),
     unique_products     |-> Cardinality({rows[i].product_name : i \in DOMAIN rows}),
     product_diversity   |->
         RoundHalfEven(Cardinality({rows[i].product_name : i \in DOMAIN rows}) * 100,
                       Len(rows)),
     avg_order_value     |-> RoundRatio(SumSeq(Amounts(rows)), Len(rows)),
     value_volatility    |-> value_volatility(Amounts(rows)),
     total_clv           |-> SumSeq(Amounts(rows)),
     first_purchase      |-> MinOf(OrderDates(rows)),
     last_purchase       |-> MaxOf(OrderDates(rows)),
     product_sequence    |-> FirstN(Column(rows, LAMBDA r : r.product_name), FirstTen),
     spending_progression |-> FirstN(Amounts(rows), FirstTen)]

(* The journey records in the order of journey_data['customer_id']         *)
(* .unique() of the sorted table.                                          *)
customer_journeys(d, ref) ==
    Column(customer_ids(d), LAMBDA c : JourneyRecord(c, customer_orders(d, c), ref))

(* stage -> number of customers, in order of first insertion.              *)
stage_distribution(journeys) ==
    CountDict(Column(journeys, LAMBDA j : j.current_stage))

(* The pattern names of _identify_journey_patterns, in the order the      *)
(* if/elif chain tries them.                                               *)
PatternNames ==
    <<"quick_converters", "gradual_builders", "high_value_starters",
      "product_explorers", "consistent_buyers", "at_risk_patterns">>

(* The chain tried from at_risk_patterns back to quick_converters.         *)
PatternLastMatch(journey) ==
    IF journey.current_stage = "Inactive" THEN "at_risk_patterns"
    ELSE IF /\ ~journey.value_volatility.nan
            /\ journey.value_volatility.num < 50
            /\ journey.order_frequency > 100
    THEN "consistent_buyers"
    ELSE IF journey.product_diversity > 70 THEN "product_explorers"
    ELSE IF /\ Len(journey.spending_progression) > 0
            /\ 2 * journey.spending_progression[1] > 3 * journey.avg_order_value
    THEN "high_value_starters"
    ELSE IF journey.journey_length_days > 180 /\ journey.total_touchpoints >= 5
    THEN "gradual_builders"
    ELSE IF journey.current_stage = "Loyal" /\ journey.journey_length_days <= 60
    THEN "quick_converters"
    ELSE "none"

(* The list one customer is appended to ("none": no branch is taken); a    *)
(* comparison with a NaN value_volatility is false.                        *)
Pattern(journey) ==
    IF journey.current_stage = "Loyal" /\ journey.journey_length_days <= 60
    THEN "quick_converters"
    ELSE IF journey.journey_length_days > 180 /\ journey.total_touchpoints >= 5
    THEN "gradual_builders"
    ELSE IF /\ Len(journey.spending_progression) > 0
            /\ 2 * journey.spending_progression[1] > 3 * journey.avg_order_value
    THEN "high_value_starters"
    ELSE IF journey.product_diversity > 70 THEN "product_explorers"
    ELSE IF /\ ~journey.value_volatility.nan
            /\ journey.value_volatility.num < 50
            /\ journey.order_frequency > 100
    THEN "consistent_buyers"
    ELSE IF journey.current_stage = "Inactive" THEN "at_risk_patterns"
    ELSE "none"

(* {k: len(v) for k, v in patterns.items()}                                *)
_identify_journey_patterns(journeys) ==
    Column(PatternNames, LAMBDA k :
        [key |-> k,
         value |-> Len(SelectSeq(journeys, LAMBDA j : Pattern(j) = k))])

(* The bucket of one customer in _calculate_conversion_metrics.            *)
ConversionStage(days_active, order_count) ==
    IF days_active <= 30 THEN "new"
    ELSE IF order_count >= 2
    THEN (IF order_count >= 5 THEN "loyal" ELSE "repeat")
    ELSE "one_time"

(* stage_counts with the days counted from the first order to the latest   *)
(* order of the table, as get_customer_stage counts them.                  *)
StageCountsSinceFirst(d) ==
    CountDict(Column(customer_ids(d), LAMBDA c :
        ConversionStage(MaxOf(OrderDates(d)) - MinOf(OrderDates(RowsOf(d, c))),
                        Len(RowsOf(d, c)))))

(* stage_counts, in order of first insertion.                              *)
stage_counts(d) ==
    CountDict(Column(customer_ids(d), LAMBDA c :
        ConversionStage(MaxOf(OrderDates(RowsOf(d, c)))
                          - MinOf(OrderDates(RowsOf(d, c))),
                        Len(RowsOf(d, c)))))

(* stage_counts.get(k, default)                                            *)
GetCount(counts, k, default) ==
    IF \E i \in DOMAIN counts : counts[i].key = k THEN Lookup(counts, k)
    ELSE default

(* The four rates with the loyal share taken of all customers.             *)
ConversionRatesOfTotal(counts, total_customers) ==
    [new_to_repeat_rate |->
         RoundHalfEven((GetCount(counts, "repeat", 0) + GetCount(counts, "loyal", 0))
                          * 10000, total_customers),
     repeat_to_loyal_rate |->
         RoundHalfEven(GetCount(counts, "loyal", 0) * 10000, total_customers),
     one_time_customer_rate |->
         RoundHalfEven(GetCount(counts, "one_time", 0) * 10000, total_customers),
     customer_lifecycle_ratio |->
         RoundHalfEven(GetCount(counts, "loyal", 0) * 100,
                       GetCount(counts, "new", 1))]

(* The returned rates, rounded to 2 decimals and kept times 100.           *)
ConversionRates(counts, total_customers) ==
    [new_to_repeat_rate |->
         RoundHalfEven((GetCount(counts, "repeat", 0) + GetCount(counts, "loyal", 0))
                          * 10000, total_customers),
     repeat_to_loyal_rate |->
         RoundHalfEven(GetCount(counts, "loyal", 0) * 10000,
                       MaxOf({GetCount(counts, "repeat", 1), 1})),
     one_time_customer_rate |->
         RoundHalfEven(GetCount(counts, "one_time", 0) * 10000, total_customers),
     customer_lifecycle_ratio |->
         RoundHalfEven(GetCount(counts, "loyal", 0) * 100,
                       GetCount(counts, "new", 1))]

_calculate_conversion_metrics(journey_data) ==
    ConversionRates(stage_counts(journey_data), Len(customer_ids(journey_data)))

JourneyResult(d, journeys) ==
    [customer_journeys        |-> journeys,
     stage_distribution       |-> stage_distribution(journeys),
     journey_patterns         |-> _identify_journey_patterns(journeys),
     conversion_metrics       |-> _calculate_conversion_metrics(d),
     total_customers_analyzed |-> Len(journeys)]

customer_journey_mapping ==
    /\ ret' = [op |-> "customer_journey_mapping", raised |-> FALSE,
               val |-> JourneyResult(df, customer_journeys(df, reference_date))]
    /\ UNCHANGED <<df, reference_date, rfm_data, segments, first_rfm>>

(* Datasets for the journey engine: customers 1..n, each with the order    *)
(* lines of one profile; the latest order of the table is the reference    *)
(* date.                                                                   *)
JourneyProfiles ==
    <<[dates |-> <<200>>, amts |-> <<500>>, prods |-> <<"A">>],
      [dates |-> <<150>>, amts |-> <<500>>, prods |-> <<"A">>],
      [dates |-> <<0>>, amts |-> <<500>>, prods |-> <<"B">>],
      [dates |-> <<150, 200>>, amts |-> <<300, 500>>, prods |-> <<"A", "B">>],
      [dates |-> <<200, 0>>, amts |-> <<900, 300>>, prods |-> <<"A", "A">>],
      [dates |-> <<0, 50, 100, 150, 200>>, amts |-> <<100, 100, 200, 100, 100>>,
       prods |-> <<"A", "B", "C", "A", "B">>],
      [dates |-> <<0, 10, 20, 30, 40>>, amts |-> <<100, 100, 100, 100, 100>>,
       prods |-> <<"A", "A", "A", "A", "A">>],
      [dates |-> <<0, 10, 20, 30, 40>>, amts |-> <<0, 0, 0, 0, 0>>,
       prods |-> <<"A", "B", "A", "B", "A">>],
      [dates |-> <<150, 160, 170, 180, 200>>, amts |-> <<100, 200, 300, 400, 500>>,
       prods |-> <<"A", "B", "C", "A", "B">>],
      [dates |-> <<0, 100>>, amts |-> <<900, 100>>, prods |-> <<"A", "B">>],
      [dates |-> <<0, 50>>, amts |-> <<100, 300>>, prods |-> <<"A", "A">>]>>

JourneyDF(n, ps) ==
    Flatten(Table([c \in 1..n |-> ProfileRows(c, JourneyProfiles[ps[c]])]))

InitJourney ==
    \E n \in 1..MaxJourneyCust : \E ps \in [1..n -> DOMAIN JourneyProfiles] :
        Construct(JourneyDF(n, ps))

NextJourney == customer_journey_mapping

SpecJourney == InitJourney /\ [][NextJourney]_vars

-----------------------------------------------------------------------------
(* Lifetime value engine.                                                  *)

CLVBins == 4

CLVLabels == <<"Low", "Medium", "High", "Very High">>

(* One row of customer_metrics after the groupby: amounts in cents, so     *)
(* round(2) leaves the sum as it is and rounds the mean to whole cents.    *)
CLVMetrics(c, rows) ==
    [customer_id     |-> c,
     first_order     |-> MinOf(OrderDates(rows)),
     last_order      |-> MaxOf(OrderDates(rows)),
     frequency       |-> Len(rows),
     total_revenue   |-> SumSeq(Amounts(rows)),
     avg_order_value |-> RoundRatio(SumSeq(Amounts(rows)), Len(rows))]

(* (last_order - first_order).dt.days with 0 replaced by 1.                *)
lifespan_days(m) ==
    IF m.last_order - m.first_order = 0 THEN 1 ELSE m.last_order - m.first_order

(* predicted_lifespan taken as the mean lifespan for every customer.       *)
PredictedAverage(frequency, lifespan, sum_lifespan, n) == Q(sum_lifespan, n)

(* np.where(frequency > 1, lifespan_days, avg_lifespan), avg_lifespan      *)
(* being sum_lifespan / n.                                                 *)
predicted_lifespan(frequency, lifespan, sum_lifespan, n) ==
    IF frequency > 1 THEN Ratio(lifespan, 1) ELSE Q(sum_lifespan, n)

(* (avg_order_value * purchase_frequency * (predicted_lifespan / 365))     *)
(* .round(2), in cents, with purchase_frequency = frequency / lifespan *   *)
(* 365.                                                                    *)
clv(avg_order_value, frequency, lifespan, predicted) ==
    RoundRatio(avg_order_value * frequency * predicted.num, lifespan * predicted.den)

CLVRow(m, lifespan, predicted) ==
    [customer_id        |-> m.customer_id,
     first_order        |-> m.first_order,
     last_order         |-> m.last_order,
     frequency          |-> m.frequency,
     total_revenue      |-> m.total_revenue,
     avg_order_value    |-> m.avg_order_value,
     lifespan_days      |-> lifespan,
     purchase_frequency |-> Q(m.frequency * 365, lifespan),
     predicted_lifespan |-> predicted,
     clv                |-> clv(m.avg_order_value, m.frequency, lifespan, predicted)]

CLVRows(metrics, sum_lifespan) ==
    Column(metrics, LAMBDA m :
        CLVRow(m, lifespan_days(m),
               predicted_lifespan(m.frequency, lifespan_days(m),
                                  sum_lifespan, Len(metrics))))

(* The rows with their clv_segment; an empty DataFrame when qcut raises.   *)
CLVSegmented(rows, segs) ==
    IF segs.ok
    THEN Table([i \in DOMAIN rows |->
             [f \in DOMAIN rows[i] \cup {"clv_segment"} |->
                 IF f = "clv_segment" THEN segs.codes[i] ELSE rows[i][f]]])
    ELSE <<>>

CLVTable(rows) ==
    CLVSegmented(rows, qcut(RankFirst(Column(rows, LAMBDA r : r.clv)),
                            CLVBins, CLVLabels))

CLVOfMetrics(metrics) ==
    CLVTable(CLVRows(metrics, SumSeq(Column(metrics, lifespan_days))))

calculate_customer_lifetime_value ==
    /\ ret' = [op |-> "calculate_customer_lifetime_value", raised |-> FALSE,
               val |-> CLVOfMetrics(Column(customer_ids(df), LAMBDA c :
                           CLVMetrics(c, RowsOf(df, c))))]
    /\ UNCHANGED <<df, reference_date, rfm_data, segments, first_rfm>>

NextCLV == calculate_customer_lifetime_value

SpecCLV == InitJourney /\ [][NextCLV]_vars

-----------------------------------------------------------------------------
(* Properties of the journey engine.                                       *)

IsJourney == ret.op = "customer_journey_mapping"

OrdersOf(c) == {i \in DOMAIN df : df[i].customer_id = c}

DaysSinceFirst(c) == reference_date - MinOf({df[i].order_date : i \in OrdersOf(c)})

DaysSinceLast(c) == reference_date - MaxOf({df[i].order_date : i \in OrdersOf(c)})

OrderCount(c) == Cardinality(OrdersOf(c))

TotalSpent(c) == SumSeq(Column(RowsOf(df, c), LAMBDA r : r.total_amount))

(* total spent > 2 x the customer's average order value, the average being *)
(* TotalSpent / OrderCount.                                                *)
SpentOverTwiceAverage(c) == TotalSpent(c) * OrderCount(c) > 2 * TotalSpent(c)

IsNew(c) == DaysSinceFirst(c) <= 30

IsDeveloping(c) == ~IsNew(c) /\ DaysSinceFirst(c) <= 90 /\ OrderCount(c) >= 2

IsLoyal(c) ==
    ~IsNew(c) /\ ~IsDeveloping(c) /\ OrderCount(c) >= 5 /\ SpentOverTwiceAverage(c)

IsInactive(c) ==
    ~IsNew(c) /\ ~IsDeveloping(c) /\ ~IsLoyal(c) /\ DaysSinceLast(c) > 90

StagesOf(c) ==
    {ret.val.customer_journeys[i].current_stage :
        i \in {j \in DOMAIN ret.val.customer_journeys :
                  ret.val.customer_journeys[j].customer_id = c}}

RecordsOf(c) ==
    {j \in DOMAIN ret.val.customer_journeys :
        ret.val.customer_journeys[j].customer_id = c}

WithStage(s) ==
    {j \in DOMAIN ret.val.customer_journeys :
        ret.val.customer_journeys[j].current_stage = s}

(* C20: customer_journey_mapping gives every customer exactly one stage,   *)
(* the first that matches of New (days since first purchase <= 30),        *)
(* Developing (that <= 90 and >= 2 orders), Loyal (>= 5 orders and total   *)
(* spent > 2 x own average order value), Inactive (days since last         *)
(* purchase > 90) and Regular, and the stage_distribution counts sum to    *)
(* total_customers_analyzed.                                               *)
C20_StageFirstMatch ==
    IsJourney =>
      /\ \A c \in {df[i].customer_id : i \in DOMAIN df} :
            /\ Cardinality(RecordsOf(c)) = 1
            /\ StagesOf(c) =
                 {IF IsNew(c) THEN "New"
                  ELSE IF IsDeveloping(c) THEN "Developing"
                  ELSE IF IsLoyal(c) THEN "Loyal"
                  ELSE IF IsInactive(c) THEN "Inactive"
                  ELSE "Regular"}
      /\ ret.val.total_customers_analyzed
           = Cardinality({df[i].customer_id : i \in DOMAIN df})
      /\ SumSeq(Column(ret.val.stage_distribution, LAMBDA e : e.value))
           = ret.val.total_customers_analyzed
      /\ \A i \in DOMAIN ret.val.stage_distribution :
            ret.val.stage_distribution[i].value
              = Cardinality(WithStage(ret.val.stage_distribution[i].key))

(* A customer with five orders is Developing, not Loyal, and another with  *)
(* five orders is Loyal although the last order is more than 90 days old:  *)
(* the order of the rules decides both.                                    *)
C20_Witness ==
    /\ IsJourney
    /\ \E c \in {df[i].customer_id : i \in DOMAIN df} :
          /\ StagesOf(c) = {"Developing"}
          /\ OrderCount(c) >= 5
          /\ SpentOverTwiceAverage(c)
    /\ \E c \in {df[i].customer_id : i \in DOMAIN df} :
          /\ StagesOf(c) = {"Loyal"}
          /\ DaysSinceLast(c) > 90
    /\ Len(ret.val.stage_distribution) >= 2

(* Pattern k of PatternNames, as a condition on a journey record.          *)
PatternHolds(k, j) ==
    CASE k = 1 -> j.current_stage = "Loyal" /\ j.journey_length_days <= 60
      [] k = 2 -> j.journey_length_days > 180 /\ j.total_touchpoints >= 5
      [] k = 3 -> /\ j.spending_progression # <<>>
                  /\ 2 * j.spending_progression[1] > 3 * j.avg_order_value
      [] k = 4 -> j.product_diversity > 70
      [] k = 5 -> /\ ~j.value_volatility.nan /\ j.value_volatility.num < 50
                  /\ j.order_frequency > 100
      [] k = 6 -> j.current_stage = "Inactive"

(* The customers whose first pattern is pattern k.                         *)
FirstPatternIs(k) ==
    {i \in DOMAIN ret.val.customer_journeys :
        /\ PatternHolds(k, ret.val.customer_journeys[i])
        /\ \A h \in 1..(k - 1) : ~PatternHolds(h, ret.val.customer_journeys[i])}

(* C21: the journey pattern counts are mutually exclusive with first-match *)
(* precedence: each count is the number of customers whose first matching  *)
(* pattern it is, so a customer matching an earlier pattern is not counted *)
(* in a later one and the six counts sum to at most the number of          *)
(* customers.                                                              *)
C21_PatternsExclusive ==
    IsJourney =>
      /\ Len(ret.val.journey_patterns) = Len(PatternNames)
      /\ \A k \in DOMAIN PatternNames :
            /\ ret.val.journey_patterns[k].key = PatternNames[k]
            /\ ret.val.journey_patterns[k].value = Cardinality(FirstPatternIs(k))
      /\ SumSeq(Column(ret.val.journey_patterns, LAMBDA e : e.value))
           <= ret.val.total_customers_analyzed

(* One customer matches product_explorers and at_risk_patterns and is      *)
(* counted in the first only; another matches no pattern.                  *)
C21_Witness ==
    /\ IsJourney
    /\ \E i \in FirstPatternIs(4) :
          PatternHolds(6, ret.val.customer_journeys[i])
    /\ ret.val.journey_patterns[4].value = Cardinality(FirstPatternIs(4))
    /\ ret.val.journey_patterns[6].value = 0
    /\ \E i \in DOMAIN ret.val.customer_journeys :
          \A k \in DOMAIN PatternNames :
             ~PatternHolds(k, ret.val.customer_journeys[i])

(* Days between the first and the last order of customer c.                *)
DaysActive(c) == DaysSinceFirst(c) - DaysSinceLast(c)

NewBucket == {c \in Customers : DaysActive(c) <= 30}

LoyalBucket == {c \in Customers \ NewBucket : OrderCount(c) >= 5}

RepeatBucket == {c \in Customers \ (NewBucket \cup LoyalBucket) : OrderCount(c) >= 2}

OneTimeBucket == Customers \ (NewBucket \cup LoyalBucket \cup RepeatBucket)

(* The size of bucket B, or 1 when it is empty.                            *)
OrOne(B) == IF B = {} THEN 1 ELSE Cardinality(B)

(* C22: every customer is in exactly one of new (last - first <= 30 days), *)
(* loyal (otherwise, >= 5 orders), repeat (otherwise, >= 2 orders) and     *)
(* one_time, and the reported rates are (repeat + loyal)/total * 100,      *)
(* loyal/repeat * 100, one_time/total * 100 and loyal/new, with 1 in place *)
(* of an empty repeat or new bucket (rates rounded to 2 decimals, kept     *)
(* times 100).                                                             *)
C22_ConversionRates ==
    IsJourney =>
      /\ ret.val.conversion_metrics.new_to_repeat_rate
           = RoundHalfEven((Cardinality(RepeatBucket) + Cardinality(LoyalBucket)) * 10000,
                           Cardinality(Customers))
      /\ ret.val.conversion_metrics.repeat_to_loyal_rate
           = RoundHalfEven(Cardinality(LoyalBucket) * 10000, OrOne(RepeatBucket))
      /\ ret.val.conversion_metrics.one_time_customer_rate
           = RoundHalfEven(Cardinality(OneTimeBucket) * 10000, Cardinality(Customers))
      /\ ret.val.conversion_metrics.customer_lifecycle_ratio
           = RoundHalfEven(Cardinality(LoyalBucket) * 100, OrOne(NewBucket))

(* Loyal customers with both the repeat and the new bucket empty: both     *)
(* quotients are taken over 1.                                             *)
C22_Witness ==
    /\ IsJourney
    /\ Cardinality(LoyalBucket) >= 2
    /\ RepeatBucket = {}
    /\ NewBucket = {}
    /\ ret.val.conversion_metrics.repeat_to_loyal_rate
         = Cardinality(LoyalBucket) * 10000
    /\ ret.val.conversion_metrics.customer_lifecycle_ratio
         = Cardinality(LoyalBucket) * 100

(* C29: the one_time bucket is never used: a customer with fewer than 2    *)
(* orders has last - first = 0 days and is in new, so                      *)
(* one_time_customer_rate is 0.                                            *)
C29_OneTimeUnreachable ==
    IsJourney =>
      /\ \A c \in Customers : OrderCount(c) < 2 => DaysActive(c) = 0
      /\ \A i \in DOMAIN stage_counts(df) : stage_counts(df)[i].key # "one_time"
      /\ ret.val.conversion_metrics.one_time_customer_rate = 0

(* A customer with a single order long before the reference date is        *)
(* counted as new, next to a customer in another bucket.                   *)
C29_Witness ==
    /\ IsJourney
    /\ \E c \in Customers :
          /\ OrderCount(c) = 1
          /\ DaysSinceFirst(c) > 90
    /\ Len(stage_counts(df)) >= 2
    /\ \E i \in DOMAIN stage_counts(df) :
          /\ stage_counts(df)[i].key = "new"
          /\ stage_counts(df)[i].value
               >= Cardinality({c \in Customers : OrderCount(c) = 1})

PositiveAmounts == \A i \in DOMAIN df : df[i].total_amount > 0

(* C28: with positive amounts the spending test of the Loyal rule never    *)
(* decides: a customer with at least 5 orders who is neither New nor       *)
(* Developing is Loyal, never Inactive or Regular.                         *)
C28_LoyalByCountAlone ==
    (IsJourney /\ PositiveAmounts) =>
      \A c \in Customers :
        (OrderCount(c) >= 5 /\ ~IsNew(c) /\ ~IsDeveloping(c))
        => /\ SpentOverTwiceAverage(c)
           /\ StagesOf(c) = {"Loyal"}

(* With positive amounts, one customer with five orders and the last order *)
(* more than 90 days old is Loyal, and one with five recent orders too.    *)
C28_Witness ==
    /\ IsJourney
    /\ PositiveAmounts
    /\ \E c \in Customers :
          /\ OrderCount(c) >= 5
          /\ DaysSinceLast(c) > 90
          /\ StagesOf(c) = {"Loyal"}
    /\ \E c \in Customers :
          /\ OrderCount(c) >= 5
          /\ DaysSinceLast(c) <= 90
          /\ StagesOf(c) = {"Loyal"}

-----------------------------------------------------------------------------
(* Properties of the lifetime value engine.                                *)

IsCLV == ret.op = "calculate_customer_lifetime_value"

(* max(1, last order - first order in days) of customer c.                 *)
Lifespan(c) == MaxOf({1, DaysActive(c)})

SumLifespans == SumSeq(Column(customer_ids(df), Lifespan))

(* round(mean order value, 2) of customer c, in cents.                     *)
AvgOrderValue(c) == RoundRatio(TotalSpent(c), OrderCount(c))

(* The lifespan the claim predicts for customer c, as a fraction.          *)
Predicted(c) ==
    IF OrderCount(c) > 1 THEN [num |-> Lifespan(c), den |-> 1]
    ELSE [num |-> SumLifespans, den |-> Cardinality(Customers)]

(* x = num/den for a cell x and integers num, den > 0.                     *)
CellIs(x, num, den) == ~x.nan /\ x.den > 0 /\ x.num * den = num * x.den

(* C23: each returned row has lifespan_days = max(1, last - first),        *)
(* purchase_frequency = frequency / lifespan_days * 365, predicted_lifespan *)
(* = lifespan_days when frequency > 1 and the mean lifespan_days otherwise, *)
(* and clv = avg_order_value * purchase_frequency * predicted_lifespan /   *)
(* 365 (rounded to cents); so clv = avg_order_value * frequency when       *)
(* frequency > 1, and no divisor is 0.                                     *)
C23_LifetimeValue ==
    IsCLV =>
      \A i \in DOMAIN ret.val :
        /\ ret.val[i].frequency = OrderCount(ret.val[i].customer_id)
        /\ ret.val[i].avg_order_value = AvgOrderValue(ret.val[i].customer_id)
        /\ ret.val[i].lifespan_days = Lifespan(ret.val[i].customer_id)
        /\ ret.val[i].lifespan_days >= 1
        /\ CellIs(ret.val[i].purchase_frequency,
                  ret.val[i].frequency * 365, ret.val[i].lifespan_days)
        /\ CellIs(ret.val[i].predicted_lifespan,
                  Predicted(ret.val[i].customer_id).num,
                  Predicted(ret.val[i].customer_id).den)
        /\ ret.val[i].clv
             = RoundRatio(ret.val[i].avg_order_value * ret.val[i].frequency * 365
                            * Predicted(ret.val[i].customer_id).num,
                          ret.val[i].lifespan_days * 365
                            * Predicted(ret.val[i].customer_id).den)
        /\ ret.val[i].frequency > 1
             => ret.val[i].clv = ret.val[i].avg_order_value * ret.val[i].frequency

(* A table with a single-order customer whose predicted lifespan is the    *)
(* mean of different lifespans, and a customer with several orders.        *)
C23_Witness ==
    /\ IsCLV
    /\ \E i \in DOMAIN ret.val :
          /\ ret.val[i].frequency = 1
          /\ ret.val[i].lifespan_days = 1
          /\ ret.val[i].predicted_lifespan.num > ret.val[i].predicted_lifespan.den
          /\ ret.val[i].clv > ret.val[i].avg_order_value
    /\ \E i \in DOMAIN ret.val :
          /\ ret.val[i].frequency > 1
          /\ ret.val[i].lifespan_days > 1
          /\ ret.val[i].clv > 0

-----------------------------------------------------------------------------
(* Clustering engine.  KMeans(n_clusters, random_state=42, n_init=10) on   *)
(* the standardised recency, frequency and monetary columns is a function  *)
(* of its input and its parameters: the labels it yields are kept as that  *)
(* application, not evaluated.                                             *)

RandomState == 42

NInit == 10

Features(t) ==
    Column(t, LAMBDA r : <<r.recency, r.frequency, r.monetary>>)

fit_predict(X, n_clusters) ==
    [estimator |-> "KMeans", n_clusters |-> n_clusters,
     random_state |-> RandomState, n_init |-> NInit, X |-> X]

(* The returned table: a copy of rfm_data with the cluster labels; an      *)
(* empty DataFrame when rfm_data is still None or empty, or when KMeans    *)
(* rejects fewer samples than clusters (the exceptions are caught).        *)
SegmentationResult(cache, n_clusters) ==
    IF cache.isNone \/ cache.table = <<>> \/ Len(cache.table) < n_clusters
    THEN <<>>
    ELSE [rfm_data |-> cache.table,
          ml_segment |-> fit_predict(Features(cache.table), n_clusters)]

advanced_segmentation(n_clusters) ==
    \E cache \in {EnsureRFM(rfm_data, df, reference_date)} :
       /\ rfm_data' = cache
       /\ ret' = [op |-> "advanced_segmentation", raised |-> FALSE,
                  args |-> [n_clusters |-> n_clusters],
                  val |-> SegmentationResult(cache, n_clusters)]
       /\ UNCHANGED <<df, reference_date, segments, first_rfm>>

(* The numbers of clusters asked for: 2 and the default 5.                 *)
ClusterCounts == {2, 5}

-----------------------------------------------------------------------------
(* A session with one object: the caller applies the operations in any     *)
(* order, any number of times.                                             *)

(* The profiles of ChurnProfiles the customers of a session take.          *)
SessionProfiles == {1, 3, 6}

Init ==
    \E n \in 1..MaxSessionCust : \E ps \in [1..n -> SessionProfiles] :
        Construct(ProfileDF(n, ps))

Next ==
    \/ calculate_rfm
    \/ get_customer_segments
    \/ identify_churn_risk
    \/ cohort_analysis
    \/ \E ms \in MinSupports : \E mc \in MinConfidences :
          market_basket_analysis(ms, mc)
    \/ customer_journey_mapping
    \/ calculate_customer_lifetime_value
    \/ \E n_clusters \in ClusterCounts : advanced_segmentation(n_clusters)

Spec == Init /\ [][Next]_vars

(* What calculate_rfm returns on a new object over the same table, r being *)
(* the table it computes.                                                  *)
FreshReturn(r) == RfmReturn(RfmDataAfter(NoneValue, r), r)

(* C16: no operation propagates an exception to the caller, whatever the   *)
(* dataset and the order of the calls.                                     *)
C16_NoException == ~ret.raised

(* C7: calculate_rfm is deterministic and idempotent: every call on an     *)
(* object returns the table its first call returned, which is the table a  *)
(* call on a new object over the same dataset returns.                     *)
C7_Idempotent ==
    ret.op = "calculate_rfm" =>
      /\ ret.val = first_rfm.val
      /\ ret.val = FreshReturn(CalcRFM(df, reference_date))

(* A repeated call that returned a table, on an object whose segment       *)
(* summary has been computed as well.                                      *)
C7_Witness ==
    /\ ret.op = "calculate_rfm"
    /\ first_rfm.calls >= 2
    /\ Len(ret.val) >= 2
    /\ ~segments.isNone

(* What the cache holds after calculate_rfm on a new object over df.       *)
FreshCache == RfmDataAfter(NoneValue, CalcRFM(df, reference_date))

(* The tables identify_churn_risk can return on a new object over df.      *)
FreshChurn ==
    IF FreshCache.isNone \/ FreshCache.table = <<>> THEN {<<>>}
    ELSE {Reorder(ChurnTable(FreshCache.table, df, reference_date), p) :
             p \in SortOrders(ChurnTable(FreshCache.table, df, reference_date))}

(* r is what the operation r.op, with the arguments of r, returns when it  *)
(* is the first call on a new object over df.                              *)
FirstCallResult(r) ==
    CASE r.op = "calculate_rfm" ->
           ~r.raised /\ r.val = FreshReturn(CalcRFM(df, reference_date))
      [] r.op = "get_customer_segments" ->
           IF FreshCache.isNone THEN r.raised
           ELSE ~r.raised /\ r.val = (IF FreshCache.table = <<>> THEN <<>>
                                      ELSE SegmentTable(FreshCache.table))
      [] r.op = "identify_churn_risk" -> ~r.raised /\ r.val \in FreshChurn
      [] r.op = "advanced_segmentation" ->
           ~r.raised /\ r.val = SegmentationResult(FreshCache, r.args.n_clusters)
      [] r.op = "calculate_customer_lifetime_value" ->
           ~r.raised /\ r.val = CLVOfMetrics(Column(customer_ids(df), LAMBDA c :
                                     CLVMetrics(c, RowsOf(df, c))))
      [] r.op = "cohort_analysis" ->
           ~r.raised /\ r.val = CohortOfMerged(Merged(df))
      [] r.op = "market_basket_analysis" ->
           ~r.raised /\ r.val = BasketCounts(Baskets(df), r.args.min_support,
                                             r.args.min_confidence)
      [] r.op = "customer_journey_mapping" ->
           ~r.raised /\ r.val = JourneyResult(df, customer_journeys(df, reference_date))
      [] OTHER -> FALSE

FrameStep ==
    /\ df' = df
    /\ reference_date' = reference_date
    /\ ~rfm_data'.isNone => rfm_data' = FreshCache
    /\ FirstCallResult(ret')

(* C27: in any sequence of engine calls on one object, no call changes     *)
(* self.df or reference_date, the cached rfm_data once set is the table    *)
(* calculate_rfm yields on a new object, and every call returns what it    *)
(* returns as the first call on a new object over the same table.          *)
C27_Frame == [][FrameStep]_vars

(* A call of identify_churn_risk that returned a table, after the cache    *)
(* was filled and the segment summary was computed by earlier calls.       *)
C27_Witness ==
    /\ ret.op = "identify_churn_risk"
    /\ Len(ret.val) >= 2
    /\ first_rfm.calls >= 1
    /\ ~segments.isNone

====
